---- MODULE Spec2Model ----
(***************************************************************************)
(* TAS5805M biquad programming over I2C (tas5805m_biquad_i2c.h):           *)
(* the Q9.23 codec, the register map, the retrying bus primitives, the     *)
(* book/page selection protocol and write_biquad, run against a model of   *)
(* the chip's book/page register file.                                     *)
(***************************************************************************)
EXTENDS Integers, Sequences, FiniteSets, TLC

\* ------------------------------------------------------------------ bounds
\* Bus failures injected in one behaviour.
MaxFail == 3
\* Top-level calls made in one behaviour.
MaxCalls == 2
\* Profile manager calls (and store fault switches) made in one behaviour.
MaxOps == 4
\* load_and_apply_active_profile calls made in one behaviour
MaxApply == 1

\* --------------------------------------------------------------- constants
REG_PAGE_SELECT == 0
REG_BOOK_SELECT == 127
BOOK_COEFF == 170
MAX_RETRIES_4 == 3 + 1
MAX_RETRIES_2 == 3 - 1
MAX_RETRIES == 3
NUM_BIQUADS_14 == 15 - 1
NUM_BIQUADS == 15

Two23 == 8388608
Two24 == 2 * Two23

\* ------------------------------------------------------------ register map
PAGE_LEFT_BQ == << 36, 36, 36, 36, 37, 37, 37, 37, 38, 38, 38, 38, 39, 39, 39 >>
OFFSET_BQ == << 8, 28, 48, 68, 8, 28, 48, 68, 8, 28, 48, 68, 8, 28, 48 >>
PAGE_RIGHT_BQ == << 50, 50, 50, 50, 51, 51, 51, 51, 52, 52, 52, 52, 53, 53, 53 >>

\* C arrays are indexed from 0, TLA+ sequences from 1.
PageOf_left_only(ch, index) == PAGE_LEFT_BQ[index + 1]
PageOf(ch, index) ==
    IF ch = "L" THEN PAGE_LEFT_BQ[index + 1] ELSE PAGE_RIGHT_BQ[index + 1]
OffsetOf(index) == OFFSET_BQ[index + 1]

\* ------------------------------------------------------------------ floats
\* A finite float is w + f / 2^24 with w its floor and 0 <= f < 2^24 (every
\* value used below is exactly representable in binary32); NaN and the two
\* infinities are separate classes (for "inf", w is the sign).
Fin(w, f) == [cls |-> "fin", w |-> w, f |-> f]
NaN == [cls |-> "nan", w |-> 0, f |-> 0]
PosInf == [cls |-> "inf", w |-> 1, f |-> 0]
NegInf == [cls |-> "inf", w |-> -1, f |-> 0]

isfinite(x) == x.cls = "fin"

\* Unary minus of a float (exact).
FNeg(x) ==
    IF x.cls = "nan" THEN x
    ELSE IF x.cls = "inf" THEN [x EXCEPT !.w = -x.w]
    ELSE IF x.f = 0 THEN Fin(-x.w, 0)
    ELSE Fin(-x.w - 1, Two24 - x.f)

\* x > y on finite floats.
FGt(x, y) == x.w > y.w \/ (x.w = y.w /\ x.f > y.f)

\* The literal 255.999999f: binary32 has a spacing of 2^-16 just below 256,
\* so the nearest float to 255.999999 is 256.0 itself.
CLAMP_HI == Fin(256, 0)
CLAMP_LO == Fin(-256, 0)

\* A 32-bit signed word hi * 2^23 + lo, -256 <= hi <= 255, 0 <= lo < 2^23.
Word(hi, lo) == [hi |-> hi, lo |-> lo]
INT32_MIN == Word(-256, 0)
INT32_MAX == Word(255, Two23 - 1)

\* static_cast<int32_t> of a float outside the int32 range is undefined:
\* the builds in use give INT32_MIN (x86 cvttss2si) or INT32_MAX (a
\* saturating conversion, as on the target's FPU).
UBOutcomes == {INT32_MIN, INT32_MAX}

\* value * (1 << 23) truncated toward zero, for a clamped finite value.
Scale23(v, ub) ==
    IF v.w >= 256 THEN ub
    ELSE IF v.w >= 0 \/ v.f % 2 = 0 THEN Word(v.w, v.f \div 2)
    ELSE IF (v.f + 1) \div 2 = Two23 THEN Word(v.w + 1, 0)
    ELSE Word(v.w, (v.f + 1) \div 2)

float_to_9_23(value, ub) ==
    IF ~isfinite(value) THEN Word(0, 0)
    ELSE LET v1 == IF FGt(value, CLAMP_HI) THEN CLAMP_HI ELSE value
             v2 == IF FGt(CLAMP_LO, v1) THEN CLAMP_LO ELSE v1
         IN  Scale23(v2, ub)

\* The same four bytes, low byte first.
pack_le32(value) ==
    LET uhi == value.hi % 512
    IN  << value.lo % 256,
           (value.lo \div 256) % 256,
           (uhi % 2) * 128 + value.lo \div 65536,
           uhi \div 2 >>

\* The four bytes (value >> 24) & 0xFF, (value >> 16) & 0xFF,
\* (value >> 8) & 0xFF, value & 0xFF of the two's complement word.
pack_be32(value) ==
    LET uhi == value.hi % 512
    IN  << uhi \div 2,
           (uhi % 2) * 128 + value.lo \div 65536,
           (value.lo \div 256) % 256,
           value.lo % 256 >>

\* A BiquadCoefficients value: <<b0, b1, b2, a1, a2>>.
\* The 20-byte coeff_buf write_biquad builds from it.
coeff_buf_unsigned(c, ub) ==
    pack_be32(float_to_9_23(c[1], ub)) \o pack_be32(float_to_9_23(c[2], ub))
    \o pack_be32(float_to_9_23(c[3], ub))
    \o pack_be32(float_to_9_23(c[4], ub))
    \o pack_be32(float_to_9_23(c[5], ub))
coeff_buf(c, ub) ==
    pack_be32(float_to_9_23(c[1], ub)) \o pack_be32(float_to_9_23(c[2], ub))
    \o pack_be32(float_to_9_23(c[3], ub))
    \o pack_be32(float_to_9_23(FNeg(c[4]), ub))
    \o pack_be32(float_to_9_23(FNeg(c[5]), ub))

\* The bypass filter (1, 0, 0, 0, 0).
BYPASS == << Fin(1, 0), Fin(0, 0), Fin(0, 0), Fin(0, 0), Fin(0, 0) >>

\* ------------------------------------------------------ 32-bit unsigned words
Two16 == 65536

\* The uint32_t hi * 2^16 + lo, 0 <= hi, lo < 2^16.
U32(hi, lo) == [hi |-> hi, lo |-> lo]

\* Bitwise exclusive or of two n-bit naturals.
RECURSIVE XorBits(_, _, _)
XorBits(a, b, n) ==
    IF n = 0 THEN 0
    ELSE ((a + b) % 2) + 2 * XorBits(a \div 2, b \div 2, n - 1)

\* The same, four bits at a time from a table, for 16-bit operands.
NIBBLE_XOR == [a \in 0 .. 15 |-> [b \in 0 .. 15 |-> XorBits(a, b, 4)] @@ << >>] @@ << >>

Xor16(a, b) ==
    NIBBLE_XOR[a % 16][b % 16]
    + 16 * NIBBLE_XOR[(a \div 16) % 16][(b \div 16) % 16]
    + 256 * NIBBLE_XOR[(a \div 256) % 16][(b \div 256) % 16]
    + 4096 * NIBBLE_XOR[a \div 4096][b \div 4096]

Xor32(x, y) == U32(Xor16(x.hi, y.hi), Xor16(x.lo, y.lo))

\* The bytes of a uint32_t in memory (little-endian, as on the ESP32).
LE32(x) == << x.lo % 256, x.lo \div 256, x.hi % 256, x.hi \div 256 >>

\* A C string is the sequence of its character codes, without the NUL.
\* hash ^= c; hash *= 16777619 (= 2^24 + 403), modulo 2^32.
fnv1_step(h, c) ==
    LET x == U32(h.hi, Xor16(h.lo, c))
        t == x.lo * 403
    IN  U32((x.hi * 403 + t \div Two16 + (x.lo % 256) * 256) % Two16, t % Two16)

RECURSIVE fnv1_from(_, _, _)
fnv1_from(h, str, i) ==
    IF i > Len(str) THEN h ELSE fnv1_from(fnv1_step(h, str[i]), str, i + 1)

\* 2166136261 = 0x811C9DC5
fnv1_hash(str) == fnv1_from(U32(33052, 40389), str, 1)

\* ----------------------------------------------------------- float images
\* The exponent e with 2^e <= n < 2^(e+1), n >= 1.
RECURSIVE Log2(_)
Log2(n) == IF n < 2 THEN 0 ELSE 1 + Log2(n \div 2)

RECURSIVE Pow2(_)
Pow2(e) == IF e = 0 THEN 1 ELSE 2 * Pow2(e - 1)

\* The IEEE 754 binary32 word of a float: sign, biased exponent, fraction.
\* e is the exponent of the magnitude m, frac its 23 fraction bits.
float_exp(m) == IF m.w >= 1 THEN Log2(m.w) ELSE Log2(m.f) - 24

float_frac(m, e) ==
    IF m.w >= 1
    THEN (m.w - Pow2(e)) * Pow2(23 - e) + m.f \div Pow2(e + 1)
    ELSE (m.f - Pow2(e + 24)) * Pow2(-1 - e)

float_word(neg, e, frac) ==
    U32((IF neg THEN 32768 ELSE 0) + (e + 127) * 128 + frac \div Two16, frac % Two16)

float_norm(neg, m, e) == float_word(neg, e, float_frac(m, e))

float_mag(neg, m) ==
    IF m.w = 0 /\ m.f = 0 THEN U32(0, 0) ELSE float_norm(neg, m, float_exp(m))

float_bits(x) ==
    IF x.cls = "nan" THEN U32(32704, 0)
    ELSE IF x.cls = "inf" THEN U32(IF x.w > 0 THEN 32640 ELSE 65408, 0)
    ELSE float_mag(x.w < 0, IF x.w < 0 THEN FNeg(x) ELSE x)

\* sizeof(BiquadCoefficients) = 20 (packed): b0, b1, b2, a1, a2.
coeff_image(c) ==
    LE32(float_bits(c[1])) \o LE32(float_bits(c[2])) \o LE32(float_bits(c[3]))
    \o LE32(float_bits(c[4])) \o LE32(float_bits(c[5]))

\* ------------------------------------------------------ calibration profile
MAX_PROFILE_NAME_LEN == 32
MAX_PROFILES == 5
\* 0x54415335
PROFILE_MAGIC == U32(21569, 21301)

\* fabs(x - d) < 0.0001f for d = 0 or 1: 0.0001f lies between 1677 and 1678
\* units of 2^-24.
EPS_UNITS == 1677
NearInt(x, d) ==
    /\ x.cls = "fin"
    /\ \/ x.w = d /\ x.f <= EPS_UNITS
       \/ x.w = d - 1 /\ Two24 - x.f <= EPS_UNITS

\* BiquadCoefficients::is_bypass
is_bypass(c) ==
    NearInt(c[1], 1) /\ NearInt(c[2], 0) /\ NearInt(c[3], 0)
        /\ NearInt(c[4], 0) /\ NearInt(c[5], 0)

\* CalibrationProfile(): the record the default constructor builds.
\* name is the C string in name[] (the rest of the array is NUL).
DefaultProfile ==
    [magic |-> PROFILE_MAGIC, name |-> << >>, timestamp |-> 0,
     left_channel |-> [i \in 1 .. 15 |-> BYPASS],
     right_channel |-> [i \in 1 .. 15 |-> BYPASS],
     num_filters_used |-> 0, checksum |-> U32(0, 0)]

\* The bytes of the record before its checksum field (packed layout):
\* magic, name[32], timestamp, left_channel[15], right_channel[15],
\* num_filters_used.
RECURSIVE Images(_, _)
Images(cs, i) ==
    IF i > Len(cs) THEN << >> ELSE coeff_image(cs[i]) \o Images(cs, i + 1)

NameImage(name) ==
    [i \in 1 .. MAX_PROFILE_NAME_LEN |-> IF i <= Len(name) THEN name[i] ELSE 0]

ProfileImage(r) ==
    LE32(r.magic) \o NameImage(r.name) \o LE32(U32(0, r.timestamp))
    \o Images(r.left_channel, 1) \o Images(r.right_channel, 1)
    \o << r.num_filters_used >>

\* 0xEDB88320
CRC_POLY == U32(60856, 33568)

\* crc = (crc >> 1) ^ (0xEDB88320 & -(crc & 1)), j times.
RECURSIVE crc_bits(_, _)
crc_bits(crc, j) ==
    IF j = 0 THEN crc
    ELSE LET shifted == U32(crc.hi \div 2, crc.lo \div 2 + (crc.hi % 2) * 32768)
         IN  crc_bits(IF crc.lo % 2 = 1 THEN Xor32(shifted, CRC_POLY) ELSE shifted,
                      j - 1)

\* for (i = 0; i < len; i++) { crc ^= data[i]; ...8 times... }, over the
\* bytes from..to (the range is halved to keep the evaluation shallow).
RECURSIVE crc_bytes(_, _, _, _)
crc_bytes(crc, data, from, to) ==
    IF from > to THEN crc
    ELSE IF from = to
         THEN crc_bits(U32(crc.hi, Xor16(crc.lo, data[from])), 8)
    ELSE LET mid == (from + to) \div 2
             first == crc_bytes(crc, data, from, mid)
         IN  IF first.lo >= 0 THEN crc_bytes(first, data, mid + 1, to) ELSE first

\* CalibrationProfile::calculate_checksum, on the record's bytes.
crc32(data) ==
    LET crc == crc_bytes(U32(65535, 65535), data, 1, Len(data))
    IN  U32(65535 - crc.hi, 65535 - crc.lo)

\* ------------------------------------------------------------------ inputs
\* (1.5, -2.0, 0.25, 1.0, 0.5)
TESTC == << Fin(1, Two23), Fin(-2, 0), Fin(0, Two23 \div 2), Fin(1, 0), Fin(0, Two23) >>

ChannelInputs == {-1, 0, 1, 2, 3}
IndexInputs == {-1, 1, 14, 15}
CoeffInputs == {BYPASS, TESTC}

\* Callers of the filter-writing entry points sharing the one bus.
Procs == {1, 2}

\* Profile names: "a", "none", and 32 times "x" (one more than name[] holds).
NAME_A == << 97 >>
NAME_NONE == << 110, 111, 110, 101 >>
NAME_LONG == [i \in 1 .. MAX_PROFILE_NAME_LEN |-> 120]
ProfileNames == {NAME_A, NAME_NONE, NAME_LONG}
\* "a" .. "e" fill the slots; "f" and "g" are two names more. The calls made
\* on a full store name "a", "c", "f" or "g".
StoredNames == {<< c >> : c \in 97 .. 101}
CapacityNames == {<< 97 >>, << 99 >>, << 102 >>, << 103 >>}

\* Profiles a caller passes to save_profile: the default one, and one with
\* (1.5, -2.0, 0.25, 1.0, 0.5) in left filter 0 and right filter 14.
P1 == [DefaultProfile EXCEPT !.left_channel[1] = TESTC, !.right_channel[15] = TESTC]
ProfileInputs == {DefaultProfile, P1}

\* Values of esphome::millis() at a save.
MillisInputs == {7000}

\* ------------------------------------------------- profile record operations
\* strncpy(name, src, MAX_PROFILE_NAME_LEN - 1); name[MAX_PROFILE_NAME_LEN - 1] = 0
strncpy_name(src) ==
    IF Len(src) > MAX_PROFILE_NAME_LEN - 1
    THEN SubSeq(src, 1, MAX_PROFILE_NAME_LEN - 1) ELSE src

\* strcmp(stored, name) == 0
strcmp_eq(stored, name) == stored = name

\* CalibrationProfile::count_active_filters
count_active_filters(r) ==
    [r EXCEPT !.num_filters_used =
        Cardinality({i \in 1 .. 15 : ~is_bypass(r.left_channel[i])
                                        \/ ~is_bypass(r.right_channel[i])})]

\* The fields the checksum covers.
Content(r) ==
    [magic |-> r.magic, name |-> r.name, timestamp |-> r.timestamp,
     left_channel |-> r.left_channel, right_channel |-> r.right_channel,
     num_filters_used |-> r.num_filters_used]

\* save_profile's copy of the caller's profile, stamped, before its checksum.
Stamped(profile_name, profile, ms) ==
    count_active_filters([profile EXCEPT !.name = strncpy_name(profile_name),
                                         !.timestamp = ms \div 1000])

\* Damage to a stored record: another format tag (0xDEADBEEF), or another
\* b0 (99.0) in left filter 5.
TamperKinds == {"magic", "data"}
Tampered(r, kind) ==
    IF kind = "magic" THEN [r EXCEPT !.magic = U32(57005, 48879)]
    ELSE [r EXCEPT !.left_channel[6][1] = Fin(99, 0)]

\* The names used where stored records get damaged: "a" and "b".
IntegrityNames == {<< 97 >>, << 98 >>}

\* The checksums of the records the inputs above can produce, computed once.
CHECKSUMS ==
    [c \in {Content(Stamped(n, q, ms)) :
                n \in ProfileNames \cup StoredNames \cup CapacityNames,
                q \in ProfileInputs,
                ms \in MillisInputs}
            \cup {Content(Tampered(Stamped(n, q, ms), kind)) :
                n \in IntegrityNames, q \in ProfileInputs,
                ms \in MillisInputs, kind \in TamperKinds}
        |-> crc32(ProfileImage(c))] @@ << >>

\* CalibrationProfile::calculate_checksum
calculate_checksum(r) ==
    IF Content(r) \in DOMAIN CHECKSUMS THEN CHECKSUMS[Content(r)]
    ELSE crc32(ProfileImage(r))

\* The format tag alone.
is_valid_magic_only(r) == r.magic = PROFILE_MAGIC

\* CalibrationProfile::is_valid
is_valid(r) == r.magic = PROFILE_MAGIC /\ r.checksum = calculate_checksum(r)

\* CalibrationProfile::update_checksum
update_checksum(r) == [r EXCEPT !.checksum = calculate_checksum(r)]

\* The same three methods on an object held as its bytes: o.image is the
\* object up to the checksum field, o.checksum the field itself.
\* offsetof(CalibrationProfile, checksum): tag 4, name 32, timestamp 4,
\* 30 filters of 20 bytes, filter count 1.
CHECKSUM_OFFSET_SHORT == 641 - 1
CHECKSUM_OFFSET == 641

image_magic(o) == SubSeq(o.image, 1, 4)

image_calculate_checksum(o) == crc32(SubSeq(o.image, 1, CHECKSUM_OFFSET))

image_is_valid(o) ==
    image_magic(o) = LE32(PROFILE_MAGIC) /\ o.checksum = image_calculate_checksum(o)

image_update_checksum(o) == [o EXCEPT !.checksum = image_calculate_checksum(o)]

\* data[pos] ^= mask, one byte of the object, the checksum field untouched.
image_mutate(o, pos, mask) ==
    [o EXCEPT !.image[pos] = XorBits(o.image[pos], mask, 8)]

\* -------------------------------------------------------------------- state
VARIABLES
    chip,         \* the device: selected book, selected page, register contents
    pc,           \* per caller: where its call stands
    frame,        \* per caller: write_biquad's arguments and locals
    outer,        \* per caller: reset_all_biquads' locals and result, if that is its current call
    prim,         \* per caller: the current or last write_byte / write_bytes call
    ret,          \* per caller: result of its last finished write_biquad
    bus,          \* per caller: the bus->write() transactions of its current write_biquad
    delay_calls,  \* per caller: the delay() calls of its current write_biquad
    acked,        \* per caller: coefficient payloads acknowledged in its current top-level call
    last_writer,  \* the caller that made the latest bus transaction (0: none yet)
    failures,     \* bus transactions that returned an error so far
    calls,        \* top-level calls made so far
    nvs,          \* the preference store: key hash -> stored bytes
    g_nvs_load_fails,        \* the store fails every load
    g_nvs_save_fails,        \* the store rejects every save
    active_profile_index_,   \* ProfileManager's in-memory active slot (-1: none)
    pm,           \* the last ProfileManager call: its arguments and results
    apply,        \* load_and_apply_active_profile's locals and result
    g_current_profile_shadow,   \* the shadow CalibrationProfile
    probe         \* a value a pure function is applied to, and the result

\* The profile manager's part of the state.
auxvars == << g_current_profile_shadow, probe >>
pmvars == << nvs, g_nvs_load_fails, g_nvs_save_fails, active_profile_index_, pm, apply,
            auxvars >>

vars == << chip, pc, frame, outer, prim, ret, bus, delay_calls, acked, last_writer,
          failures, calls, pmvars >>

Idle == [fn |-> "idle", ch |-> "-", step |-> 0]
Sel(ch, step) == [fn |-> "select_book_page", ch |-> ch, step |-> step]
Data(ch) == [fn |-> "write_bytes", ch |-> ch, step |-> 1]
Norm(step) == [fn |-> "return_to_normal", ch |-> "-", step |-> step]
\* Back in reset_all_biquads' loop, its reset_biquad call having returned.
Loop == [fn |-> "reset_all_biquads", ch |-> "-", step |-> 0]
\* Back in load_and_apply_active_profile's loop, a write_biquad call of it
\* having returned.
ApplyLoop == [fn |-> "load_and_apply_active_profile", ch |-> "-", step |-> 0]

NoPrim == [fn |-> "none", attempt |-> 0, txns |-> 0, retry_delays |-> << >>, ret |-> "none"]
NoFrame == [channel |-> 0, index |-> 0, coeffs |-> BYPASS, buf |-> << >>, success |-> TRUE]
NoOuter == [bq |-> 0, success |-> TRUE, ret |-> "none"]

Str(b) == IF b THEN "true" ELSE "false"

\* --------------------------------------------------------------------- chip
\* Register 0x00 selects the page on every page; register 0x7F selects the
\* book only while page 0 is selected; any other write lands in the
\* register file at (selected book, selected page, register).
ChipWrite(c, reg, data) ==
    IF Len(data) = 1 /\ reg = REG_PAGE_SELECT THEN [c EXCEPT !.page = data[1]]
    ELSE IF Len(data) = 1 /\ reg = REG_BOOK_SELECT /\ c.page = 0
         THEN [c EXCEPT !.book = data[1]]
    ELSE LET loc == << c.book, c.page, reg >>
         IN  [c EXCEPT !.mem = [l \in DOMAIN c.mem \cup {loc} |->
                                   IF l = loc THEN data ELSE c.mem[l]]]

\* ------------------------------------------------------------ bus protocol
\* The register writes select_book_page(book, page) issues, in order.
select_book_page_swapped(book, page) ==
    << [reg |-> REG_BOOK_SELECT, data |-> << book >>],
       [reg |-> REG_PAGE_SELECT, data |-> << 0 >>],
       [reg |-> REG_PAGE_SELECT, data |-> << page >>] >>
select_book_page(book, page) ==
    << [reg |-> REG_PAGE_SELECT, data |-> << 0 >>],
       [reg |-> REG_BOOK_SELECT, data |-> << book >>],
       [reg |-> REG_PAGE_SELECT, data |-> << page >>] >>

\* The register writes return_to_normal() issues, in order.
return_to_normal ==
    << [reg |-> REG_PAGE_SELECT, data |-> << 0 >>],
       [reg |-> REG_BOOK_SELECT, data |-> << 0 >> ] >>

\* The write the caller's next bus transaction carries.
Pending(p) ==
    LET at == pc[p]
        fr == frame[p]
    IN  IF at.fn = "select_book_page"
            THEN select_book_page(BOOK_COEFF, PageOf(at.ch, fr.index))[at.step]
        ELSE IF at.fn = "write_bytes"
            THEN [reg |-> OffsetOf(fr.index), data |-> fr.buf]
        ELSE return_to_normal[at.step]

\* write_biquad's control flow between its bus primitives.
LeftRequested(channel) == channel = 0 \/ channel = 2
RightRequested_only(channel) == channel = 1
RightRequested(channel) == channel = 1 \/ channel = 2
AfterLeft(channel) == IF RightRequested(channel) THEN Sel("R", 1) ELSE Norm(1)
Entry(channel) == IF LeftRequested(channel) THEN Sel("L", 1) ELSE AfterLeft(channel)

\* Where a returning write_biquad hands control back to.
ReturnTo(p) ==
    IF outer[p].ret = "running" THEN Loop
    ELSE IF apply.ret = "running" /\ p = 1 THEN ApplyLoop
    ELSE Idle

\* The same, with the result of the payload write not folded into 'success'.
AfterPrimitive_payload_ignored(p, r) ==
    LET at == pc[p]
        fr == frame[p]
        done(v) == [pc |-> ReturnTo(p), ret |-> Str(v),
                    delays |-> << >>, success |-> fr.success]
    IN  IF at.fn = "select_book_page" THEN
            IF ~r THEN done(FALSE)
            ELSE [pc |-> IF at.step < 3 THEN Sel(at.ch, at.step + 1) ELSE Data(at.ch),
                  ret |-> "none", delays |-> << 2 >>, success |-> fr.success]
        ELSE IF at.fn = "write_bytes" THEN
            [pc |-> IF at.ch = "L" THEN AfterLeft(fr.channel) ELSE Norm(1),
             ret |-> "none", delays |-> << 5 >>, success |-> fr.success]
        ELSE IF at.step = 1 /\ r THEN
            [pc |-> Norm(2), ret |-> "none", delays |-> << >>, success |-> fr.success]
        ELSE done(fr.success)

\* Where the call goes once the primitive at pc[p] has returned r, the
\* value write_biquad returns if that ends it ("none" otherwise), the delay()
\* calls made on the way, and the new value of the local 'success'.
AfterPrimitive(p, r) ==
    LET at == pc[p]
        fr == frame[p]
        done(v) == [pc |-> ReturnTo(p), ret |-> Str(v),
                    delays |-> << >>, success |-> fr.success]
    IN  IF at.fn = "select_book_page" THEN
            IF ~r THEN done(FALSE)
            ELSE [pc |-> IF at.step < 3 THEN Sel(at.ch, at.step + 1) ELSE Data(at.ch),
                  ret |-> "none", delays |-> << 2 >>, success |-> fr.success]
        ELSE IF at.fn = "write_bytes" THEN
            [pc |-> IF at.ch = "L" THEN AfterLeft(fr.channel) ELSE Norm(1),
             ret |-> "none", delays |-> << 5 >>, success |-> fr.success /\ r]
        ELSE IF at.step = 1 /\ r THEN
            [pc |-> Norm(2), ret |-> "none", delays |-> << >>, success |-> fr.success]
        ELSE done(fr.success)

\* One bus->write() inside write_byte / write_bytes, with what follows it up
\* to the caller's next bus transaction.
Attempt(p, fn, ok) ==
    LET w == Pending(p)
        fresh == prim[p].ret # "running"
        attempt == IF fresh THEN 0 ELSE prim[p].attempt
        txns == (IF fresh THEN 0 ELSE prim[p].txns) + 1
        rd == IF fresh THEN << >> ELSE prim[p].retry_delays
        \* the I2CCall record, with the error code returned, the place in
        \* the code that issued it, the chip's addressing when it arrived,
        \* and whether another caller used the bus since this caller's
        \* previous transaction of the same call
        call == [reg |-> w.reg, data |-> w.data, ok |-> ok, at |-> pc[p],
                 book |-> chip.book, page |-> chip.page,
                 foreign |-> bus[p] # << >> /\ last_writer # p]
        retry == ~ok /\ attempt < MAX_RETRIES - 1
        nxt == AfterPrimitive(p, ok)
    IN  /\ bus' = [bus EXCEPT ![p] = Append(@, call)]
        /\ chip' = IF ok THEN ChipWrite(chip, w.reg, w.data) ELSE chip
        /\ last_writer' = p
        /\ failures' = IF ok THEN failures ELSE failures + 1
        /\ acked' = IF ok /\ fn = "write_bytes" THEN [acked EXCEPT ![p] = @ + 1] ELSE acked
        /\ IF retry
           THEN /\ prim' = [prim EXCEPT ![p] = [fn |-> fn, attempt |-> attempt + 1,
                                txns |-> txns, retry_delays |-> Append(rd, 5), ret |-> "running"]]
                /\ delay_calls' = [delay_calls EXCEPT ![p] = Append(@, 5)]
                /\ UNCHANGED << pc, frame, ret >>
           ELSE /\ prim' = [prim EXCEPT ![p] = [fn |-> fn, attempt |-> attempt,
                                txns |-> txns, retry_delays |-> rd, ret |-> Str(ok)]]
                /\ delay_calls' = [delay_calls EXCEPT ![p] = @ \o nxt.delays]
                /\ pc' = [pc EXCEPT ![p] = nxt.pc]
                /\ frame' = [frame EXCEPT ![p].success = nxt.success]
                /\ ret' = [ret EXCEPT ![p] = nxt.ret]
        /\ UNCHANGED << outer, calls, pmvars >>

\* The outcomes an unreliable bus may give the next transaction.
BusOutcomes == IF failures < MaxFail THEN {TRUE, FALSE} ELSE {TRUE}
\* A bus with no failures.
Reliable == {TRUE}
\* mock_fail_after(n, fail_count): one run of consecutive failures, which
\* caller p sees begin at any transaction and last at most MaxFail.
BurstOutcomes(p) ==
    IF \/ failures = 0
       \/ failures < MaxFail /\ bus[p] # << >> /\ ~bus[p][Len(bus[p])].ok
    THEN {TRUE, FALSE} ELSE {TRUE}

\* A bus that may fail any attempt of the behaviour's first call, however
\* many, and none afterwards.
AnyPattern == IF calls = 1 THEN {TRUE, FALSE} ELSE {TRUE}

\* write_biquad's only argument check.
InvalidIndex_gt(index) == index < 0 \/ index > NUM_BIQUADS
InvalidIndex(index) == index < 0 \/ index >= NUM_BIQUADS

\* Entry of write_biquad up to its first bus transaction.
EnterWriteBiquad(p, channel, index, c) ==
    /\ bus' = [bus EXCEPT ![p] = << >>]
    /\ delay_calls' = [delay_calls EXCEPT ![p] = << >>]
    /\ prim' = [prim EXCEPT ![p] = NoPrim]
    /\ \E ub \in UBOutcomes :
         frame' = [frame EXCEPT ![p] = [channel |-> channel, index |-> index,
                      coeffs |-> c,
                      buf |-> IF InvalidIndex(index) THEN << >>
                              ELSE coeff_buf(c, ub),
                      success |-> TRUE]]
    /\ IF InvalidIndex(index)
       THEN /\ ret' = [ret EXCEPT ![p] = "false"]
            /\ pc' = [pc EXCEPT ![p] = ReturnTo(p)]
       ELSE /\ ret' = [ret EXCEPT ![p] = "none"]
            /\ pc' = [pc EXCEPT ![p] = Entry(channel)]

\* --------------------------------------------------------------- operations
write_biquad(p, channel, index, c) ==
    /\ pc[p] = Idle
    /\ calls < MaxCalls
    /\ calls' = calls + 1
    /\ acked' = [acked EXCEPT ![p] = 0]
    /\ outer' = [outer EXCEPT ![p] = NoOuter]
    /\ EnterWriteBiquad(p, channel, index, c)
    /\ UNCHANGED << chip, failures, last_writer, pmvars >>

reset_biquad(p, channel, index) ==
    write_biquad(p, channel, index, BYPASS)

reset_all_biquads(p) ==
    /\ pc[p] = Idle
    /\ calls < MaxCalls
    /\ calls' = calls + 1
    /\ acked' = [acked EXCEPT ![p] = 0]
    /\ outer' = [outer EXCEPT ![p] = [bq |-> 0, success |-> TRUE, ret |-> "running"]]
    /\ bus' = [bus EXCEPT ![p] = << >>]
    /\ delay_calls' = [delay_calls EXCEPT ![p] = << >>]
    /\ prim' = [prim EXCEPT ![p] = NoPrim]
    /\ frame' = [frame EXCEPT ![p] = [channel |-> 2, index |-> 0, coeffs |-> BYPASS,
                     buf |-> coeff_buf(BYPASS, INT32_MIN), success |-> TRUE]]
    /\ ret' = [ret EXCEPT ![p] = "none"]
    /\ pc' = [pc EXCEPT ![p] = Entry(2)]
    /\ UNCHANGED << chip, failures, last_writer, pmvars >>

\* reset_all_biquads' loop: fold the result of reset_biquad(2, bq), then
\* either call reset_biquad(2, bq + 1) or return.
reset_all_loop(p) ==
    /\ pc[p] = Loop
    /\ LET s == outer[p].success /\ ret[p] = "true"
           bq == outer[p].bq + 1
       IN  IF bq < NUM_BIQUADS
           THEN /\ outer' = [outer EXCEPT ![p] = [bq |-> bq, success |-> s, ret |-> "running"]]
                /\ bus' = [bus EXCEPT ![p] = << >>]
                /\ delay_calls' = [delay_calls EXCEPT ![p] = << >>]
                /\ prim' = [prim EXCEPT ![p] = NoPrim]
                /\ frame' = [frame EXCEPT ![p] = [channel |-> 2, index |-> bq,
                                 coeffs |-> BYPASS,
                                 buf |-> coeff_buf(BYPASS, INT32_MIN), success |-> TRUE]]
                /\ ret' = [ret EXCEPT ![p] = "none"]
                /\ pc' = [pc EXCEPT ![p] = Entry(2)]
           ELSE /\ outer' = [outer EXCEPT ![p] = [bq |-> bq, success |-> s, ret |-> Str(s)]]
                /\ pc' = [pc EXCEPT ![p] = Idle]
                /\ UNCHANGED << bus, delay_calls, prim, frame, ret >>
    /\ UNCHANGED << chip, failures, calls, acked, last_writer, pmvars >>

write_byte(p, outcomes) ==
    /\ pc[p].fn \in {"select_book_page", "return_to_normal"}
    /\ \E ok \in outcomes : Attempt(p, "write_byte", ok)

write_bytes(p, outcomes) ==
    /\ pc[p].fn = "write_bytes"
    /\ \E ok \in outcomes : Attempt(p, "write_bytes", ok)

\* -------------------------------------------------------------- preferences
\* sizeof(CalibrationProfile), packed: 4 + 32 + 4 + 300 + 300 + 1 + 4.
SIZEOF_PROFILE == 645
SIZEOF_INT8 == 1

\* snprintf(key, sizeof(key), "profile_%d", slot), for a one-digit slot.
get_profile_key(slot) == << 112, 114, 111, 102, 105, 108, 101, 95, 48 + slot >>
\* "active_profile"
ACTIVE_KEY == << 97, 99, 116, 105, 118, 101, 95, 112, 114, 111, 102, 105, 108, 101 >>

\* make_preference<T>(fnv1_hash(key)): the hashes of the six keys, computed once.
PROFILE_KEY_HASH ==
    [slot \in 0 .. MAX_PROFILES - 1 |-> fnv1_hash(get_profile_key(slot))] @@ << >>
ACTIVE_KEY_HASH == fnv1_hash(ACTIVE_KEY)

\* ESPPreferenceObject::load<T>(&value) on the preference with this hash.
pref_load(store, hash, size) ==
    IF g_nvs_load_fails \/ hash \notin DOMAIN store THEN [ok |-> FALSE]
    ELSE IF store[hash].size # size THEN [ok |-> FALSE]
    ELSE [ok |-> TRUE, value |-> store[hash].data]

\* ESPPreferenceObject::save<T>(&value): the store after the call.
pref_save(store, hash, size, value) ==
    IF g_nvs_save_fails THEN store
    ELSE [h \in DOMAIN store \cup {hash} |->
             IF h = hash THEN [size |-> size, data |-> value] ELSE store[h]]

\* int8_t active_profile_index_ = slot
ToInt8(v) == ((v + 128) % 256) - 128

\* ---------------------------------------------------------- profile manager
\* load_profile_by_index(slot, profile): the result, and the caller's record
\* after the call (out before it).
load_profile_by_index(store, slot, out) ==
    IF slot < 0 \/ slot >= MAX_PROFILES THEN [ok |-> FALSE, profile |-> out]
    ELSE LET l == pref_load(store, PROFILE_KEY_HASH[slot], SIZEOF_PROFILE)
         IN  IF ~l.ok THEN [ok |-> FALSE, profile |-> out]
             ELSE [ok |-> is_valid(l.value), profile |-> l.value]

\* The lowest slot in S, or -1.
FirstSlot(S) == IF S = {} THEN -1 ELSE CHOOSE i \in S : \A j \in S : i <= j

find_profile_slot(store, profile_name) ==
    FirstSlot({i \in 0 .. MAX_PROFILES - 1 :
                  LET l == load_profile_by_index(store, i, DefaultProfile)
                  IN  l.ok /\ strcmp_eq(l.profile.name, profile_name)})

\* list_profiles(): the names of the slots that load, in slot order.
RECURSIVE list_from(_, _)
list_from(store, i) ==
    IF i >= MAX_PROFILES THEN << >>
    ELSE LET l == load_profile_by_index(store, i, DefaultProfile)
         IN  (IF l.ok THEN << l.profile.name >> ELSE << >>) \o list_from(store, i + 1)

list_profiles(store) == list_from(store, 0)

\* The first slot that does not load, whatever the name.
save_slot_first_free(store, profile_name) ==
    FirstSlot({i \in 0 .. MAX_PROFILES - 1 :
                  ~load_profile_by_index(store, i, DefaultProfile).ok})

\* Slot 0 when no slot is free.
save_slot_evict(store, profile_name) ==
    LET slot == find_profile_slot(store, profile_name)
        free == {i \in 0 .. MAX_PROFILES - 1 :
                    ~load_profile_by_index(store, i, DefaultProfile).ok}
    IN  IF slot # -1 THEN slot ELSE IF free = {} THEN 0 ELSE FirstSlot(free)

\* save_profile's choice of slot: the one holding the name, else the first
\* that does not load, else -1.
save_slot(store, profile_name) ==
    LET slot == find_profile_slot(store, profile_name)
    IN  IF slot # -1 THEN slot
        ELSE FirstSlot({i \in 0 .. MAX_PROFILES - 1 :
                           ~load_profile_by_index(store, i, DefaultProfile).ok})

\* load_profile(profile_name, profile)
load_profile(store, profile_name, out) ==
    LET slot == find_profile_slot(store, profile_name)
    IN  IF slot = -1 THEN [ok |-> FALSE, profile |-> out]
        ELSE load_profile_by_index(store, slot, out)

\* set_active_profile(int slot): result, in-memory index and store after it.
set_active_profile_int(store, slot) ==
    IF slot >= MAX_PROFILES
    THEN [ret |-> FALSE, active |-> active_profile_index_, store |-> store]
    ELSE [ret |-> ~g_nvs_save_fails, active |-> ToInt8(slot),
          store |-> pref_save(store, ACTIVE_KEY_HASH, SIZEOF_INT8, ToInt8(slot))]

\* "none", "error"
TEXT_NONE == << 110, 111, 110, 101 >>
TEXT_ERROR == << 101, 114, 114, 111, 114 >>

\* found: what find_profile_slot returned to the call; slot: the slot it used.
NoCall == [op |-> "none", name |-> << >>, found |-> -1, slot |-> -1, ret |-> "none",
           out |-> DefaultProfile, text |-> << >>]
\* i, success, profile: the locals; side: the channel being written; writes:
\* the write_biquad calls made, with their results; txns, delays: the bus
\* transactions of those calls and the loop's own delay(2) calls; n: calls
\* of the function so far.
\* No function applied yet.
NoProbe == [fn |-> "none"]

NoApply == [i |-> 0, side |-> "-", success |-> TRUE, ret |-> "none",
            profile |-> DefaultProfile, writes |-> << >>, txns |-> 0, delays |-> 0,
            n |-> 0]

\* The bus side of the state, which the store operations leave alone.
busvars == << chip, pc, frame, outer, prim, ret, bus, delay_calls, acked, last_writer,
             failures >>

\* A profile manager call can be made: nothing is on the bus, and the
\* behaviour's budget of calls is not used up.
CanCall == pc[1] = Idle /\ calls < MaxOps

\* The store after save_profile(profile_name, profile) at millis() = ms.
saved_store(store, profile_name, profile, ms) ==
    LET slot == save_slot(store, profile_name)
        rec == update_checksum(Stamped(profile_name, profile, ms))
    IN  IF slot = -1 THEN store
        ELSE pref_save(store, PROFILE_KEY_HASH[slot], SIZEOF_PROFILE, rec)

\* ProfileManager::save_profile(profile_name, profile), at millis() = ms.
save_profile(profile_name, profile, ms) ==
    LET slot == save_slot(nvs, profile_name)
    IN  /\ CanCall
        /\ calls' = calls + 1
        /\ nvs' = saved_store(nvs, profile_name, profile, ms)
        /\ pm' = [NoCall EXCEPT !.op = "save_profile", !.name = profile_name,
                                !.found = find_profile_slot(nvs, profile_name),
                                !.slot = slot, !.out = profile,
                                !.ret = Str(slot # -1 /\ ~g_nvs_save_fails)]
        /\ UNCHANGED << busvars, auxvars, g_nvs_load_fails, g_nvs_save_fails,
                        active_profile_index_, apply >>

\* ProfileManager::load_profile(profile_name, profile) into a fresh record.
load_profile_call(profile_name) ==
    LET l == load_profile(nvs, profile_name, DefaultProfile)
    IN  /\ CanCall
        /\ calls' = calls + 1
        /\ pm' = [NoCall EXCEPT !.op = "load_profile", !.name = profile_name,
                                !.found = find_profile_slot(nvs, profile_name),
                                !.slot = find_profile_slot(nvs, profile_name),
                                !.out = l.profile, !.ret = Str(l.ok)]
        /\ UNCHANGED << busvars, auxvars, nvs, g_nvs_load_fails, g_nvs_save_fails,
                        active_profile_index_, apply >>

\* ProfileManager::delete_profile(profile_name)
delete_profile(profile_name) ==
    LET slot == find_profile_slot(nvs, profile_name)
        empty == [DefaultProfile EXCEPT !.magic = U32(0, 0)]
        erased == pref_save(nvs, PROFILE_KEY_HASH[slot], SIZEOF_PROFILE, empty)
        cleared == set_active_profile_int(erased, -1)
    IN  /\ CanCall
        /\ calls' = calls + 1
        /\ pm' = [NoCall EXCEPT !.op = "delete_profile", !.name = profile_name,
                                !.found = slot, !.slot = slot, !.ret = Str(slot # -1)]
        /\ IF slot = -1 THEN UNCHANGED << nvs, active_profile_index_ >>
           ELSE IF slot = active_profile_index_
                THEN nvs' = cleared.store /\ active_profile_index_' = cleared.active
           ELSE nvs' = erased /\ UNCHANGED active_profile_index_
        /\ UNCHANGED << busvars, auxvars, g_nvs_load_fails, g_nvs_save_fails, apply >>

\* ProfileManager::set_active_profile(const std::string& profile_name)
set_active_profile_name(profile_name) ==
    LET slot == find_profile_slot(nvs, profile_name)
        r == set_active_profile_int(nvs, slot)
    IN  /\ CanCall
        /\ calls' = calls + 1
        /\ pm' = [NoCall EXCEPT !.op = "set_active_profile(name)", !.name = profile_name,
                                !.found = slot, !.slot = slot,
                                !.ret = Str(slot # -1 /\ r.ret)]
        /\ IF slot = -1 THEN UNCHANGED << nvs, active_profile_index_ >>
           ELSE nvs' = r.store /\ active_profile_index_' = r.active
        /\ UNCHANGED << busvars, auxvars, g_nvs_load_fails, g_nvs_save_fails, apply >>

\* ProfileManager::set_active_profile(int slot)
set_active_profile(slot) ==
    LET r == set_active_profile_int(nvs, slot)
    IN  /\ CanCall
        /\ calls' = calls + 1
        /\ pm' = [NoCall EXCEPT !.op = "set_active_profile(slot)", !.slot = slot,
                                !.ret = Str(r.ret)]
        /\ nvs' = r.store
        /\ active_profile_index_' = r.active
        /\ UNCHANGED << busvars, auxvars, g_nvs_load_fails, g_nvs_save_fails, apply >>

\* ProfileManager::get_active_profile_name()
active_profile_name ==
    IF active_profile_index_ = -1 THEN TEXT_NONE
    ELSE LET l == load_profile_by_index(nvs, active_profile_index_, DefaultProfile)
         IN  IF l.ok THEN l.profile.name ELSE TEXT_ERROR

get_active_profile_name ==
    /\ CanCall
    /\ calls' = calls + 1
    /\ pm' = [NoCall EXCEPT !.op = "get_active_profile_name",
                            !.slot = active_profile_index_,
                            !.text = active_profile_name]
    /\ UNCHANGED << busvars, auxvars, nvs, g_nvs_load_fails, g_nvs_save_fails,
                    active_profile_index_, apply >>

\* if (active_profile_index_ == -1): no active profile.
NoActive_never(index) == FALSE
NoActive(index) == index = -1

\* for (int i = 0; i < 15; i++)
APPLY_COUNT_14 == 15 - 1
APPLY_COUNT == 15

\* ProfileManager::load_and_apply_active_profile(bus, address), by caller 1:
\* up to its first write_biquad call.
load_and_apply_active_profile ==
    LET l == load_profile_by_index(nvs, active_profile_index_, DefaultProfile)
        started == [NoApply EXCEPT !.n = apply.n + 1]
    IN  /\ CanCall
        /\ apply.n < MaxApply
        /\ calls' = calls + 1
        /\ pm' = [NoCall EXCEPT !.op = "load_and_apply_active_profile",
                                !.slot = active_profile_index_]
        /\ IF NoActive(active_profile_index_)
           THEN /\ apply' = [started EXCEPT !.ret = "true"]
                /\ UNCHANGED busvars
           ELSE IF ~l.ok
           THEN /\ apply' = [started EXCEPT !.ret = "false", !.profile = l.profile]
                /\ UNCHANGED busvars
           ELSE /\ apply' = [started EXCEPT !.ret = "running", !.side = "L",
                                            !.profile = l.profile]
                /\ acked' = [acked EXCEPT ![1] = 0]
                /\ outer' = [outer EXCEPT ![1] = NoOuter]
                /\ EnterWriteBiquad(1, 0, 0, l.profile.left_channel[1])
                /\ UNCHANGED << chip, failures, last_writer >>
        /\ UNCHANGED << nvs, g_nvs_load_fails, g_nvs_save_fails, active_profile_index_,
                        auxvars >>

\* load_and_apply_active_profile's loop: fold the result of the write_biquad
\* call that returned, then make the next call, or delay(2) and either go on
\* to the next index or return.
apply_loop ==
    LET ok == ret[1] = "true"
        s == apply.success /\ ok
        folded == [apply EXCEPT
                      !.success = s,
                      !.writes = Append(@, [channel |-> frame[1].channel,
                                            index |-> frame[1].index, ok |-> ok]),
                      !.txns = @ + Len(bus[1])]
        i == apply.i + 1
    IN  /\ pc[1] = ApplyLoop
        /\ IF apply.side = "L"
           THEN /\ apply' = [folded EXCEPT !.side = "R"]
                /\ EnterWriteBiquad(1, 1, apply.i, apply.profile.right_channel[apply.i + 1])
           ELSE IF i < APPLY_COUNT
           THEN /\ apply' = [folded EXCEPT !.side = "L", !.i = i, !.delays = @ + 1]
                /\ EnterWriteBiquad(1, 0, i, apply.profile.left_channel[i + 1])
           ELSE /\ apply' = [folded EXCEPT !.side = "-", !.i = i, !.delays = @ + 1,
                                           !.ret = Str(s)]
                /\ pc' = [pc EXCEPT ![1] = Idle]
                /\ UNCHANGED << bus, delay_calls, prim, frame, ret >>
        /\ UNCHANGED << chip, failures, calls, acked, last_writer, outer, nvs,
                        g_nvs_load_fails, g_nvs_save_fails, active_profile_index_, pm,
                        auxvars >>

\* ProfileManager::setup()'s value for active_profile_index_: the persisted
\* index when it loads and is a slot number, else -1.
setup_index(store) ==
    LET l == pref_load(store, ACTIVE_KEY_HASH, SIZEOF_INT8)
    IN  IF l.ok /\ l.value >= 0 /\ l.value < MAX_PROFILES THEN l.value ELSE -1

\* A restart: a new ProfileManager, then setup().
setup ==
    /\ CanCall
    /\ calls' = calls + 1
    /\ active_profile_index_' = setup_index(nvs)
    /\ pm' = [NoCall EXCEPT !.op = "setup", !.slot = setup_index(nvs)]
    /\ UNCHANGED << busvars, auxvars, nvs, g_nvs_load_fails, g_nvs_save_fails, apply >>

\* mock_nvs_set_save_fails(fails): the store starts or stops rejecting writes.
mock_nvs_set_save_fails(fails) ==
    /\ CanCall
    /\ calls' = calls + 1
    /\ g_nvs_save_fails # fails
    /\ g_nvs_save_fails' = fails
    /\ pm' = [NoCall EXCEPT !.op = "mock_nvs_set_save_fails"]
    /\ UNCHANGED << busvars, auxvars, nvs, g_nvs_load_fails, active_profile_index_, apply >>

\* mock_nvs_set_load_fails(fails): the store starts or stops failing loads.
mock_nvs_set_load_fails(fails) ==
    /\ CanCall
    /\ calls' = calls + 1
    /\ g_nvs_load_fails # fails
    /\ g_nvs_load_fails' = fails
    /\ pm' = [NoCall EXCEPT !.op = "mock_nvs_set_load_fails"]
    /\ UNCHANGED << busvars, auxvars, nvs, g_nvs_save_fails, active_profile_index_, apply >>

\* ProfileManager::load_profile_by_index(slot, profile) into a fresh record.
load_profile_by_index_call(slot) ==
    LET l == load_profile_by_index(nvs, slot, DefaultProfile)
    IN  /\ CanCall
        /\ calls' = calls + 1
        /\ pm' = [NoCall EXCEPT !.op = "load_profile_by_index", !.slot = slot,
                                !.out = l.profile, !.ret = Str(l.ok)]
        /\ UNCHANGED << busvars, auxvars, nvs, g_nvs_load_fails, g_nvs_save_fails,
                        active_profile_index_, apply >>

\* The bytes stored for a slot change behind the manager's back (flash wear,
\* an interrupted write, another firmware's record): the tag or a
\* coefficient changes, with the checksum as it was or made to fit; the
\* checksum alone changes; or the record has another size.
CorruptKinds == {"magic", "magic+checksum", "data", "checksum", "size"}

Corrupted(e, kind) ==
    IF kind = "magic" THEN [e EXCEPT !.data = Tampered(@, "magic")]
    ELSE IF kind = "magic+checksum"
         THEN [e EXCEPT !.data = update_checksum(Tampered(@, "magic"))]
    ELSE IF kind = "data" THEN [e EXCEPT !.data = Tampered(@, "data")]
    ELSE IF kind = "checksum"
         THEN [e EXCEPT !.data.checksum = Xor32(@, U32(0, 1))]
    ELSE [e EXCEPT !.size = SIZEOF_PROFILE - 1]

corrupt(slot, kind) ==
    /\ CanCall
    /\ calls' = calls + 1
    /\ PROFILE_KEY_HASH[slot] \in DOMAIN nvs
    /\ is_valid(nvs[PROFILE_KEY_HASH[slot]].data)
    /\ nvs[PROFILE_KEY_HASH[slot]].size = SIZEOF_PROFILE
    /\ nvs' = [nvs EXCEPT ![PROFILE_KEY_HASH[slot]] = Corrupted(@, kind)]
    /\ pm' = [NoCall EXCEPT !.op = "corrupt", !.slot = slot]
    /\ UNCHANGED << busvars, auxvars, g_nvs_load_fails, g_nvs_save_fails,
                    active_profile_index_, apply >>

\* ------------------------------------------------------------ specification
InitMachine ==
    /\ chip = [book |-> 0, page |-> 0, mem |-> << >>]
    /\ pc = [p \in Procs |-> Idle]
    /\ frame = [p \in Procs |-> NoFrame]
    /\ outer = [p \in Procs |-> NoOuter]
    /\ prim = [p \in Procs |-> NoPrim]
    /\ ret = [p \in Procs |-> "none"]
    /\ bus = [p \in Procs |-> << >>]
    /\ delay_calls = [p \in Procs |-> << >>]
    /\ acked = [p \in Procs |-> 0]
    /\ last_writer = 0
    /\ failures = 0
    /\ calls = 0
    /\ nvs = << >>
    /\ g_nvs_load_fails = FALSE
    /\ g_nvs_save_fails = FALSE
    /\ active_profile_index_ = -1
    /\ pm = NoCall
    /\ apply = NoApply
    /\ g_current_profile_shadow = DefaultProfile

Init == InitMachine /\ probe = NoProbe

\* The store an earlier run left full: the default profile saved under
\* "a" .. "e", in this order, at millis() = 7000.
FullNames == << << 97 >>, << 98 >>, << 99 >>, << 100 >>, << 101 >> >>

FullStore ==
    [h \in {PROFILE_KEY_HASH[i] : i \in 0 .. MAX_PROFILES - 1} |->
        LET slot == CHOOSE i \in 0 .. MAX_PROFILES - 1 : PROFILE_KEY_HASH[i] = h
        IN  [size |-> SIZEOF_PROFILE,
             data |-> update_checksum(Stamped(FullNames[slot + 1], DefaultProfile, 7000))]]

InitFull ==
    /\ chip = [book |-> 0, page |-> 0, mem |-> << >>]
    /\ pc = [p \in Procs |-> Idle]
    /\ frame = [p \in Procs |-> NoFrame]
    /\ outer = [p \in Procs |-> NoOuter]
    /\ prim = [p \in Procs |-> NoPrim]
    /\ ret = [p \in Procs |-> "none"]
    /\ bus = [p \in Procs |-> << >>]
    /\ delay_calls = [p \in Procs |-> << >>]
    /\ acked = [p \in Procs |-> 0]
    /\ last_writer = 0
    /\ failures = 0
    /\ calls = 0
    /\ g_nvs_load_fails = FALSE
    /\ g_nvs_save_fails = FALSE
    /\ nvs = FullStore
    /\ active_profile_index_ = -1
    /\ pm = NoCall
    /\ apply = NoApply
    /\ g_current_profile_shadow = DefaultProfile
    /\ probe = NoProbe

\* write_biquad to one slot, on a bus that fails in any pattern.
AttemptChannels == {0, 1, 2}

NextAttempts ==
    \/ \E channel \in AttemptChannels : write_biquad(1, channel, 0, TESTC)
    \/ write_byte(1, AnyPattern)
    \/ write_bytes(1, AnyPattern)

SpecAttempts == Init /\ [][NextAttempts]_vars

\* The checksum methods applied to one object: a profile as save_profile
\* builds it, or the same bytes under a foreign format tag; its checksum is
\* updated, one byte of it is changed, and is_valid() is asked at any point.
WRONG_MAGIC == U32(57005, 48879)
MagicInputs == {PROFILE_MAGIC, WRONG_MAGIC}

\* Every byte (1-based) after the tag and before the checksum: name 5..36,
\* timestamp 37..40, left filters 41..340, right filters 341..640, filter
\* count 641; one bit or all bits of the byte are flipped.
MutatePositions == 5 .. 641
MutateMasks == {1, 255}

machinevars == << busvars, calls, nvs, g_nvs_load_fails, g_nvs_save_fails,
                 active_profile_index_, pm, apply, g_current_profile_shadow >>

InitChecksum ==
    /\ InitMachine
    /\ \E q \in ProfileInputs, m \in MagicInputs :
           probe = [fn |-> "checksum",
                    image |-> ProfileImage([Stamped(NAME_A, q, 7000) EXCEPT !.magic = m]),
                    checksum |-> U32(0, 0),
                    stage |-> "fresh",
                    valid |-> "none"]

probe_update_checksum ==
    /\ probe.fn = "checksum" /\ probe.stage = "fresh"
    /\ probe' = [image_update_checksum(probe) EXCEPT !.stage = "updated",
                                                      !.valid = "none"]
    /\ UNCHANGED machinevars

probe_mutate(pos, mask) ==
    /\ probe.fn = "checksum" /\ probe.stage = "updated"
    /\ probe' = [image_mutate(probe, pos, mask) EXCEPT !.stage = "mutated",
                                                       !.valid = "none"]
    /\ UNCHANGED machinevars

probe_is_valid ==
    /\ probe.fn = "checksum" /\ probe.valid = "none"
    /\ probe' = [probe EXCEPT !.valid = IF image_is_valid(probe) THEN "true" ELSE "false"]
    /\ UNCHANGED machinevars

NextChecksum ==
    \/ probe_update_checksum
    \/ \E pos \in MutatePositions, mask \in MutateMasks : probe_mutate(pos, mask)
    \/ probe_is_valid

SpecChecksum == InitChecksum /\ [][NextChecksum]_vars

\* add_filter_to_profile(profile, channel, index, b0, b1, b2, a1, a2), the
\* five floats as one coefficient set c.
add_filter_to_profile_both(profile, channel, index, c) ==
    IF index < 0 \/ index >= 15 THEN profile
    ELSE [profile EXCEPT !.left_channel[index + 1] = c,
                         !.right_channel[index + 1] = c]

add_filter_to_profile(profile, channel, index, c) ==
    IF index < 0 \/ index >= 15 THEN profile
    ELSE LET left == IF channel = 0 \/ channel = 2
                     THEN [profile EXCEPT !.left_channel[index + 1] = c]
                     ELSE profile
         IN  IF channel = 1 \/ channel = 2
             THEN [left EXCEPT !.right_channel[index + 1] = c]
             ELSE left

\* add_filter_to_profile applied once to a profile as save_profile stores it.
AddFilterChannels == {0, 1, 2, 3}
AddFilterIndices == -1 .. 16
AddFilterCoeffs == {TESTC, BYPASS}

InitAddFilter ==
    /\ InitMachine
    /\ \E q \in ProfileInputs :
           probe = [fn |-> "add_filter", stage |-> "fresh", channel |-> 0, index |-> 0,
                    coeffs |-> BYPASS,
                    before |-> update_checksum(Stamped(NAME_A, q, 7000)),
                    profile |-> update_checksum(Stamped(NAME_A, q, 7000))]

probe_add_filter_to_profile(channel, index, c) ==
    /\ probe.fn = "add_filter" /\ probe.stage = "fresh"
    /\ probe' = [probe EXCEPT !.stage = "applied", !.channel = channel,
                              !.index = index, !.coeffs = c,
                              !.profile = add_filter_to_profile(probe.profile, channel,
                                                                index, c)]
    /\ UNCHANGED machinevars

NextAddFilter ==
    \E channel \in AddFilterChannels, index \in AddFilterIndices, c \in AddFilterCoeffs :
        probe_add_filter_to_profile(channel, index, c)

SpecAddFilter == InitAddFilter /\ [][NextAddFilter]_vars

\* The coefficient codec applied to one float: float_to_9_23, pack_be32, the
\* bytes read back as a signed big-endian word, and float_to_9_23 of the two
\* clamp bounds as the tests compute them.
\* w + f / 2^24 is a binary32 value: 24 significant bits.
IsBinary32(w, f) ==
    LET k == IF w >= 0 THEN w ELSE IF f = 0 THEN -w ELSE -w - 1
    IN  k = 0 \/ f % Pow2(Log2(k) + 1) = 0

CodecWholes == {-1000, -500, -257, -256, -255, -2, -1, 0, 1, 2, 127, 255, 256, 500, 1000}
CodecFractions ==
    {0, 1, 2, 3, 256, 512, Two23, Two23 + 1, Two24 - 512, Two24 - 256, Two24 - 2,
     Two24 - 1}
CodecInputs ==
    {Fin(w, f) : << w, f >> \in {x \in CodecWholes \X CodecFractions :
                                    IsBinary32(x[1], x[2])}}
    \cup {NaN, PosInf, NegInf}

\* The signed 32-bit word of four big-endian bytes.
unpack_be32(b) ==
    LET uhi == b[1] * 2 + b[2] \div 128
    IN  Word(IF uhi >= 256 THEN uhi - 512 ELSE uhi,
             (b[2] % 128) * 65536 + b[3] * 256 + b[4])

InitCodec ==
    /\ InitMachine
    /\ \E v \in CodecInputs :
           probe = [fn |-> "codec", value |-> v, word |-> << >>, bytes |-> << >>,
                    decoded |-> << >>, bounds |-> << >>]

probe_float_to_9_23 ==
    /\ probe.fn = "codec" /\ probe.word = << >>
    /\ \E ub \in UBOutcomes :
           probe' = [probe EXCEPT !.word = << float_to_9_23(probe.value, ub) >>]
    /\ UNCHANGED machinevars

probe_pack_be32 ==
    /\ probe.fn = "codec" /\ probe.word # << >> /\ probe.bytes = << >>
    /\ probe' = [probe EXCEPT !.bytes = pack_be32(probe.word[1])]
    /\ UNCHANGED machinevars

probe_unpack_be32 ==
    /\ probe.fn = "codec" /\ probe.bytes # << >> /\ probe.decoded = << >>
    /\ probe' = [probe EXCEPT !.decoded = << unpack_be32(probe.bytes) >>]
    /\ UNCHANGED machinevars

\* float_to_9_23(255.999999f) and float_to_9_23(-256.0f), each its own call.
probe_clamp_bounds ==
    /\ probe.fn = "codec" /\ probe.bounds = << >>
    /\ \E ub \in UBOutcomes :
           probe' = [probe EXCEPT !.bounds = << float_to_9_23(CLAMP_HI, ub),
                                               float_to_9_23(CLAMP_LO, ub) >>]
    /\ UNCHANGED machinevars

NextCodec ==
    \/ probe_float_to_9_23
    \/ probe_pack_be32
    \/ probe_unpack_be32
    \/ probe_clamp_bounds

SpecCodec == InitCodec /\ [][NextCodec]_vars

\* Serialized calls on an unreliable bus: one owner (caller 1) makes every
\* call, one at a time.
Next ==
    \/ \E channel \in ChannelInputs, index \in IndexInputs, c \in CoeffInputs :
          write_biquad(1, channel, index, c)
    \/ \E channel \in ChannelInputs, index \in IndexInputs :
          reset_biquad(1, channel, index)
    \/ write_byte(1, BusOutcomes)
    \/ write_bytes(1, BusOutcomes)

Spec == Init /\ [][Next]_vars

\* Serialized calls on a bus with no failures.
NextReliable ==
    \/ \E channel \in ChannelInputs, index \in IndexInputs, c \in CoeffInputs :
          write_biquad(1, channel, index, c)
    \/ \E channel \in ChannelInputs, index \in IndexInputs :
          reset_biquad(1, channel, index)
    \/ reset_all_biquads(1)
    \/ reset_all_loop(1)
    \/ write_byte(1, Reliable)
    \/ write_bytes(1, Reliable)

SpecReliable == Init /\ [][NextReliable]_vars

\* No serialization: two callers share the bus, their bus transactions
\* interleave freely (the core takes no lock).
ConcChannels == {0, 1}
ConcIndices == {1, 14}

NextConc ==
    \E p \in Procs :
        \/ \E channel \in ConcChannels, index \in ConcIndices :
              write_biquad(p, channel, index, TESTC)
        \/ write_byte(p, Reliable)
        \/ write_bytes(p, Reliable)

SpecConc == Init /\ [][NextConc]_vars

\* reset_all_biquads on an unreliable bus, after or before writes of other
\* coefficients.
ResetChannels == {0, 2}
ResetIndices == {0, 14}

NextReset ==
    \/ \E channel \in ResetChannels, index \in ResetIndices :
          write_biquad(1, channel, index, TESTC)
    \/ reset_all_biquads(1)
    \/ reset_all_loop(1)
    \/ write_byte(1, BusOutcomes)
    \/ write_bytes(1, BusOutcomes)

SpecReset == Init /\ [][NextReset]_vars

\* The profile manager on a store that may reject writes; the bus is not
\* used.
ActiveSlotInputs == {-2, -1, 1, 5}

NextProfile ==
    \/ \E n \in ProfileNames, q \in ProfileInputs, ms \in MillisInputs :
          save_profile(n, q, ms)
    \/ \E n \in ProfileNames : load_profile_call(n)
    \/ \E n \in ProfileNames : delete_profile(n)
    \/ \E n \in ProfileNames : set_active_profile_name(n)
    \/ \E slot \in ActiveSlotInputs : set_active_profile(slot)
    \/ get_active_profile_name
    \/ setup
    \/ \E fails \in BOOLEAN : mock_nvs_set_save_fails(fails)

SpecProfile == Init /\ [][NextProfile]_vars

\* The profile manager at capacity: the store starts full, and may reject
\* writes.
NextCapacity ==
    \/ \E n \in CapacityNames : save_profile(n, P1, 7000)
    \/ \E n \in CapacityNames : delete_profile(n)
    \/ \E n \in CapacityNames : set_active_profile_name(n)
    \/ \E fails \in BOOLEAN : mock_nvs_set_save_fails(fails)

SpecCapacity == InitFull /\ [][NextCapacity]_vars

\* The profile manager on a store whose records can be damaged and whose
\* loads can fail.
LoadSlotInputs == {-1, 0, 1, 5, 100}

NextIntegrity ==
    \/ \E n \in IntegrityNames, q \in ProfileInputs : save_profile(n, q, 7000)
    \/ \E n \in IntegrityNames : delete_profile(n)
    \/ \E slot \in {0, 1}, kind \in CorruptKinds : corrupt(slot, kind)
    \/ \E fails \in BOOLEAN : mock_nvs_set_load_fails(fails)
    \/ \E slot \in LoadSlotInputs : load_profile_by_index_call(slot)
    \/ \E n \in IntegrityNames : load_profile_call(n)

SpecIntegrity == Init /\ [][NextIntegrity]_vars

\* Applying the active profile over a bus with a run of failures: a profile
\* is saved, made active (or a slot without a valid record is), and applied.
ApplySlotInputs == {-1, 0, 1}

NextApply ==
    \/ \E q \in ProfileInputs : save_profile(NAME_A, q, 7000)
    \/ delete_profile(NAME_A)
    \/ \E slot \in ApplySlotInputs : set_active_profile(slot)
    \/ load_and_apply_active_profile
    \/ apply_loop
    \/ write_byte(1, BurstOutcomes(1))
    \/ write_bytes(1, BurstOutcomes(1))

SpecApply == Init /\ [][NextApply]_vars

\* ------------------------------------------------------------------ claims
\* The transactions of caller p's current write_biquad that its
\* select_book_page call for channel ch issued.
SelectLog(p, ch) ==
    LET Mine(e) == e.at.fn = "select_book_page" /\ e.at.ch = ch
    IN  SelectSeq(bus[p], Mine)

OkBefore(s, i) == Cardinality({j \in 1 .. (i - 1) : s[j].ok})

\* C1: select_book_page writes page-select(0x00)=0, then bank-select(0x7F)=book,
\* then page-select(0x00)=page; each transaction carries the write of the first
\* step not yet acknowledged, nothing follows the third acknowledgement, and
\* after three failed attempts of one step nothing more is issued and the
\* operation (and the write_biquad that called it) returns failure.
C1_SelectOrder ==
    \A p \in Procs, ch \in {"L", "R"} :
        LET s == SelectLog(p, ch)
            page == IF ch = "L" THEN PAGE_LEFT_BQ[frame[p].index + 1]
                    ELSE PAGE_RIGHT_BQ[frame[p].index + 1]
            want == << << 0, 0 >>, << 127, 170 >>, << 0, page >> >>
        IN  \A i \in 1 .. Len(s) :
                /\ OkBefore(s, i) < 3
                /\ Len(s[i].data) = 1
                /\ << s[i].reg, s[i].data[1] >> = want[OkBefore(s, i) + 1]
                /\ (i >= 3 /\ ~s[i].ok /\ ~s[i - 1].ok /\ ~s[i - 2].ok)
                      => /\ i = Len(s)
                         /\ bus[p][Len(bus[p])] = s[i]
                         /\ ret[p] = "false"
                         /\ pc[p] \in {Idle, Loop}

\* C1 witness: the page-select=0 step was acknowledged, the bank-select step
\* failed three times, and the call returned failure.
C1_Witness ==
    /\ Len(bus[1]) = 4
    /\ bus[1][1].ok /\ bus[1][1].reg = 0
    /\ \A i \in 2 .. 4 : ~bus[1][i].ok /\ bus[1][i].reg = 127
    /\ ret[1] = "false"

\* C2: a write_byte / write_bytes call makes at most 3 bus attempts of the
\* same write, all but the last of them failed, it sleeps 5 ms after each
\* failed attempt except the third, and it returns success iff its last
\* attempt was acknowledged (failure only after 3 failed attempts).
C2_RetryPolicy ==
    \A p \in Procs :
        LET r == prim[p]
            n == r.txns
            m == Len(bus[p])
            d == IF r.ret = "running" THEN n ELSE n - 1
        IN  r.fn # "none" =>
                /\ n \in 1 .. 3 /\ n <= m
                /\ \A i \in 1 .. (n - 1) : ~bus[p][m - n + i].ok
                /\ \A i \in 1 .. n : /\ bus[p][m - n + i].reg = bus[p][m].reg
                                     /\ bus[p][m - n + i].data = bus[p][m].data
                /\ Len(r.retry_delays) = d
                /\ \A i \in 1 .. d : r.retry_delays[i] = 5
                /\ (r.ret = "true") = bus[p][m].ok
                /\ r.ret = "false" => n = 3
                /\ r.ret = "running" => n < 3
                /\ (r.fn = "write_bytes") = (Len(bus[p][m].data) > 1)

\* C2 witness: a write_bytes call that failed twice and succeeded on its
\* third attempt.
C2_Witness ==
    /\ prim[1].fn = "write_bytes" /\ prim[1].ret = "true" /\ prim[1].txns = 3
    /\ prim[1].retry_delays = << 5, 5 >>

\* The last three transactions of caller p's current call all failed.
ThreeFailed(p) ==
    LET m == Len(bus[p])
    IN  m >= 3 /\ ~bus[p][m].ok /\ ~bus[p][m - 1].ok /\ ~bus[p][m - 2].ok

\* C3 as stated: a single-byte write whose three attempts failed, on a bus
\* whose next transaction would succeed, is an overall success with 3
\* transactions and 2 retry delays.
C3_Original ==
    \A p \in Procs :
        (prim[p].fn = "write_byte" /\ prim[p].txns = 3 /\ ThreeFailed(p)
            /\ BusOutcomes = {TRUE})
        => (prim[p].ret = "true" /\ Len(prim[p].retry_delays) = 2)

\* C3 amended: a single-byte write whose first two attempts fail and whose
\* third succeeds is a success with exactly 3 transactions and 2 retry
\* delays; when the third attempt fails too, it is a failure after exactly 3
\* attempts and 2 retry delays, whatever a fourth attempt would have given.
C3_Amended ==
    \A p \in Procs :
        LET r == prim[p]
            m == Len(bus[p])
        IN  r.fn = "write_byte" =>
                /\ r.txns <= 3
                /\ r.ret = "false" => r.txns = 3
                /\ (r.txns = 3 /\ bus[p][m].ok)
                      => /\ ~bus[p][m - 1].ok /\ ~bus[p][m - 2].ok
                         /\ r.ret = "true" /\ r.retry_delays = << 5, 5 >>
                /\ (r.txns = 3 /\ ThreeFailed(p))
                      => r.ret = "false" /\ r.retry_delays = << 5, 5 >>

\* C3 witness: a single-byte write returned failure after three failed
\* attempts although the bus would acknowledge the next transaction.
C3_Witness ==
    /\ prim[1].fn = "write_byte" /\ prim[1].ret = "false" /\ prim[1].txns = 3
    /\ ThreeFailed(1)
    /\ BusOutcomes = {TRUE}

\* The chip locations of the 30 filter slots.
SlotLocations ==
    {<< 170, PAGE_LEFT_BQ[i], OFFSET_BQ[i] >> : i \in 1 .. 15}
    \cup {<< 170, PAGE_RIGHT_BQ[i], OFFSET_BQ[i] >> : i \in 1 .. 15}

Payload(e) == Len(e.data) = 20

\* C4: with serialized calls, every coefficient payload the chip accepts
\* arrives while bank 0xAA and the page of the payload's own (channel, index)
\* are selected, at that slot's offset, for a requested channel; so the chip
\* holds 20-byte blocks at filter-slot locations and nothing anywhere else.
C4_PayloadAtOwnSlot ==
    /\ \A p \in Procs : \A i \in 1 .. Len(bus[p]) :
          LET e == bus[p][i]
              idx == frame[p].index + 1
          IN  (Payload(e) /\ e.ok) =>
                  /\ e.book = 170
                  /\ e.page = IF e.at.ch = "L" THEN PAGE_LEFT_BQ[idx] ELSE PAGE_RIGHT_BQ[idx]
                  /\ e.reg = OFFSET_BQ[idx]
                  /\ e.at.ch = "L" => frame[p].channel \in {0, 2}
                  /\ e.at.ch = "R" => frame[p].channel \in {1, 2}
    /\ \A loc \in DOMAIN chip.mem : loc \in SlotLocations /\ Len(chip.mem[loc]) = 20

\* C4 witness: a right-channel payload is accepted in a call that began
\* while the chip was still on a coefficient page of bank 0xAA (the previous
\* call's return-to-normal had exhausted its retries).
C4_Witness ==
    /\ bus[1] # << >>
    /\ bus[1][1].book = 170 /\ bus[1][1].page # 0
    /\ \E i \in 1 .. Len(bus[1]) : Payload(bus[1][i]) /\ bus[1][i].ok
                                   /\ bus[1][i].at.ch = "R"

\* The page of the slot entry e of caller p's current call was sent to.
OwnPage(p, e) ==
    IF e.at.ch = "L" THEN PAGE_LEFT_BQ[frame[p].index + 1]
    ELSE PAGE_RIGHT_BQ[frame[p].index + 1]

\* Entry i of caller p's log is a payload the chip accepted while its
\* selected bank/page was not that of the payload's own slot.
Misdirected(p, i) ==
    LET e == bus[p][i]
    IN  Payload(e) /\ e.ok /\ (e.book # 170 \/ e.page # OwnPage(p, e))

\* C5: without serialization a payload can be accepted while the chip's
\* selected bank/page is not that of its own slot, and interleaving is what
\* does it: every misdirected payload belongs to a call that had another
\* caller's bus transaction between two of its own, up to that payload (the
\* code holds no lock that would keep the other caller out).
C5_MisdirectedOnlyByInterleaving ==
    \A p \in Procs : \A i \in 1 .. Len(bus[p]) :
        Misdirected(p, i) => \E j \in 1 .. i : bus[p][j].foreign

\* C5 witness: callers 1 and 2 target slots on different pages, and caller
\* 1's payload was accepted into caller 2's page.
C5_Witness ==
    /\ frame[2].buf # << >>
    /\ \E i \in 1 .. Len(bus[1]) :
          /\ Misdirected(1, i)
          /\ bus[1][i].book = 170
          /\ bus[1][i].page # OwnPage(1, bus[1][i])
          /\ bus[1][i].page \in {PAGE_LEFT_BQ[frame[2].index + 1],
                                 PAGE_RIGHT_BQ[frame[2].index + 1]}

\* The payload bytes of the two coefficient sets in use, written out.
BYPASS_BYTES ==
    << 0, 128, 0, 0,  0, 0, 0, 0,  0, 0, 0, 0,  0, 0, 0, 0,  0, 0, 0, 0 >>
TESTC_BYTES ==
    << 0, 192, 0, 0,  255, 0, 0, 0,  0, 32, 0, 0,  255, 128, 0, 0,  255, 192, 0, 0 >>

\* C6: the payload write_biquad puts on the bus is 20 bytes, five big-endian
\* Q9.23 words b0, b1, b2, -a1, -a2: b0 = 1.0 gives 00 80 00 00, a1 = 1.0
\* gives FF 80 00 00 and a2 = 0.5 gives FF C0 00 00; words four and five are
\* the encodings of the negated a1 and a2, words one to three those of b0,
\* b1, b2 as given.
C6_PayloadLayout ==
    \A p \in Procs : \A i \in 1 .. Len(bus[p]) :
        LET e == bus[p][i]
            c == frame[p].coeffs
            W(k) == SubSeq(e.data, 4 * k - 3, 4 * k)
        IN  e.at.fn = "write_bytes" =>
              /\ Len(e.data) = 20
              /\ c = BYPASS => e.data = BYPASS_BYTES
              /\ c = TESTC => e.data = TESTC_BYTES
              /\ \A k \in 1 .. 3 : W(k) = pack_be32(float_to_9_23(c[k], INT32_MAX))
              /\ \A k \in 4 .. 5 : W(k) = pack_be32(float_to_9_23(FNeg(c[k]), INT32_MAX))

\* C6 witness: a payload for (1.5, -2.0, 0.25, 1.0, 0.5) is on the bus, its
\* fourth word FF 80 00 00 and its fifth FF C0 00 00.
C6_Witness ==
    /\ frame[1].coeffs = TESTC
    /\ \E i \in 1 .. Len(bus[1]) :
          /\ Payload(bus[1][i])
          /\ SubSeq(bus[1][i].data, 13, 20) = << 255, 128, 0, 0, 255, 192, 0, 0 >>

\* The coefficient payloads in caller p's current write_biquad log.
PayloadLog(p) == SelectSeq(bus[p], Payload)

\* Caller p's write_biquad has returned.
Returned(p) == pc[p] \in {Idle, Loop} /\ ret[p] # "none"

\* C7: on a bus with no failures a finished write_biquad with a valid index
\* has emitted exactly one payload per requested channel: channel 0 one to
\* the index's left page, channel 1 one to its right page, channel 2 two
\* with identical bytes, left page first then right page, at the same
\* offset; reset_all_biquads, while running, has had 2 payloads accepted per
\* finished index plus those of the index in progress, and 30 when it
\* returns, the chip then holding the bypass filter in all 30 slots.
C7_OnePayloadPerChannel ==
    \A p \in Procs :
        LET s == PayloadLog(p)
            idx == frame[p].index + 1
            ch == frame[p].channel
        IN  /\ (Returned(p) /\ idx \in 1 .. 15 /\ ch \in {0, 1, 2}) =>
                /\ ret[p] = "true"
                /\ \A i \in 1 .. Len(s) : /\ s[i].ok /\ s[i].book = 170
                                          /\ s[i].reg = OFFSET_BQ[idx]
                /\ ch = 0 => Len(s) = 1 /\ s[1].page = PAGE_LEFT_BQ[idx]
                /\ ch = 1 => Len(s) = 1 /\ s[1].page = PAGE_RIGHT_BQ[idx]
                /\ ch = 2 => /\ Len(s) = 2
                             /\ s[1].page = PAGE_LEFT_BQ[idx]
                             /\ s[2].page = PAGE_RIGHT_BQ[idx]
                             /\ s[1].data = s[2].data
                             /\ s[1].reg = s[2].reg
            /\ outer[p].ret = "running" => acked[p] = 2 * outer[p].bq + Len(s)
            /\ outer[p].ret \in {"true", "false"} =>
                /\ outer[p].ret = "true"
                /\ acked[p] = 30
                /\ DOMAIN chip.mem = SlotLocations
                /\ \A loc \in SlotLocations : chip.mem[loc] = BYPASS_BYTES

\* C7 witness: reset_all_biquads has returned with 30 payloads accepted, the
\* last write_biquad in it having sent two to index 14's two pages.
C7_Witness ==
    /\ outer[1].ret = "true"
    /\ acked[1] = 30
    /\ Len(PayloadLog(1)) = 2
    /\ PayloadLog(1)[1].page = 39 /\ PayloadLog(1)[2].page = 53

\* C8: a write_biquad call with an index outside [0, 15) returns failure at
\* once, whatever its channel and coefficients: the step by which the bus
\* owner (caller 1) makes the call leaves the chip as it was, and the call
\* ends there with an empty bus log, no delay and the result false.
C8_InvalidIndexRejected ==
    [][(calls' = calls + 1 /\ frame'[1].index \notin 0 .. 14)
          => /\ chip' = chip
             /\ bus'[1] = << >>
             /\ delay_calls'[1] = << >>
             /\ ret'[1] = "false"
             /\ pc'[1] = Idle]_vars

\* C8 witness: index 15 with a channel outside {0, 1, 2} and non-bypass
\* coefficients was rejected while the chip held coefficients and its
\* addressing was away from book 0 (an earlier call had failed).
C8_Witness ==
    /\ frame[1].index = 15 /\ frame[1].channel = 3 /\ frame[1].coeffs = TESTC
    /\ pc[1] = Idle /\ ret[1] = "false"
    /\ bus[1] = << >> /\ delay_calls[1] = << >>
    /\ chip.book = 170 /\ chip.mem # << >>

\* C9 as stated: a write_biquad call whose channel is outside {0, 1, 2}
\* returns failure and performs no bus I/O.
C9_InvalidChannelRejected ==
    \A p \in Procs :
        (frame[p].channel \notin {0, 1, 2} /\ frame[p].buf # << >>)
        => bus[p] = << >> /\ ret[p] # "true"

\* The log s ends with the return-to-normal sequence: an acknowledged
\* page-select=0 write, then only bank-select=0 writes, at least one.
EndsWithReturnToNormal(s) ==
    \E k \in 2 .. Len(s) :
        /\ s[k - 1].reg = 0 /\ s[k - 1].data = << 0 >> /\ s[k - 1].ok
        /\ \A j \in k .. Len(s) : s[j].reg = 127 /\ s[j].data = << 0 >>

\* C10 as stated: every write_biquad call that passed index validation ends,
\* on every path, with its last bus transactions being page-select=0, then
\* bank-select=0.
C10_AlwaysReturnsToNormal ==
    \A p \in Procs :
        (Returned(p) /\ frame[p].index \in 0 .. 14 /\ frame[p].buf # << >>)
        => EndsWithReturnToNormal(bus[p])

\* A bus primitive of caller p's current call, issued for channel ch from
\* place fn, exhausted its retries: three failed attempts in a row.
Exhausted(p, ch, fn) ==
    \E i \in 3 .. Len(bus[p]) :
        \A j \in (i - 2) .. i :
            ~bus[p][j].ok /\ bus[p][j].at = bus[p][i].at
                /\ bus[p][i].at.ch = ch /\ bus[p][i].at.fn = fn

\* C11 as stated: in a write_biquad for both channels, whenever the left
\* channel's write fails (its selection or its payload write exhausted its
\* retries), the call still attempts the right channel's selection (and,
\* that selected, its payload write) and returns failure.
C11_RightAttemptedAfterLeftFails ==
    \A p \in Procs :
        (Returned(p) /\ frame[p].channel = 2 /\ frame[p].buf # << >>
            /\ (Exhausted(p, "L", "select_book_page") \/ Exhausted(p, "L", "write_bytes")))
        => /\ ret[p] = "false"
           /\ \E i \in 1 .. Len(bus[p]) : bus[p][i].at = Sel("R", 1)
           /\ (\E i \in 1 .. Len(bus[p]) : bus[p][i].at = Sel("R", 3) /\ bus[p][i].ok)
                 => \E i \in 1 .. Len(bus[p]) : bus[p][i].at = Data("R")

\* All 30 filter slots of chip c hold the bypass filter, and c holds nothing
\* else.
AllBypass(c) ==
    /\ DOMAIN c.mem = SlotLocations
    /\ \A loc \in SlotLocations : c.mem[loc] = BYPASS_BYTES

\* C12 as stated: reset_all_biquads, whenever it has returned, has left all
\* 30 slots equal to bypass.
C12_ResetAlwaysBypass ==
    \A p \in Procs : outer[p].ret \in {"true", "false"} => AllBypass(chip)

\* C12 amended: a reset_all_biquads that returns success has left all 30
\* slots equal to bypass, whatever the chip held and wherever its addressing
\* stood before; and once all 30 are bypass, no step of a further
\* reset_all_biquads, successful or not, changes any coefficient.
C12_Amended ==
    /\ [](\A p \in Procs : outer[p].ret = "true" => AllBypass(chip))
    /\ [][(AllBypass(chip) /\ outer'[1].ret # "none") => chip'.mem = chip.mem]_vars

\* C12 witness: the second call, a reset_all_biquads, returned success with
\* all 30 slots bypass in a behaviour whose bus had failed three times.
C12_Witness ==
    /\ calls = 2 /\ failures = 3
    /\ outer[1].ret = "true"
    /\ AllBypass(chip)

\* The record a finished load_profile handed back carries P's 30 coefficient
\* sets and validates.
LoadedAs(call, P) ==
    /\ call.ret = "true"
    /\ is_valid(call.out)
    /\ call.out.left_channel = P.left_channel
    /\ call.out.right_channel = P.right_channel

\* C13: for every profile name, of any length, and every profile P: when
\* save_profile(name, P) returns success, a load_profile(name, Q) made
\* immediately after it returns success, Q is valid, and the 30 coefficient
\* sets of Q equal those of P.
C13_SaveLoadRoundTrip ==
    [][(/\ pm.op = "save_profile" /\ pm.ret = "true"
        /\ pm'.op = "load_profile" /\ pm'.name = pm.name)
       => LoadedAs(pm', pm.out)]_vars

\* The record stored in a slot: a set of one record, or of none.
SlotRecord(store, i) ==
    IF PROFILE_KEY_HASH[i] \in DOMAIN store THEN {store[PROFILE_KEY_HASH[i]]} ELSE {}

\* This step is a save_profile call under a name a valid slot holds.
SaveHeld == pm'.op = "save_profile" /\ pm'.found # -1

\* What C14 promises of such a step.
Overwrites ==
    /\ pm'.slot = pm'.found
    /\ Len(list_profiles(nvs')) = Len(list_profiles(nvs))
    /\ \A i \in 0 .. MAX_PROFILES - 1 :
           i # pm'.found => SlotRecord(nvs', i) = SlotRecord(nvs, i)
    /\ LoadedAs([ret |-> Str(load_profile(nvs', pm'.name, DefaultProfile).ok),
                 out |-> load_profile(nvs', pm'.name, DefaultProfile).profile],
                pm'.out)

\* C14 as stated: save_profile with a name already held by a valid slot
\* overwrites that slot: the number of valid stored profiles does not change,
\* every other slot is unchanged, and a following load_profile(name) returns
\* the new coefficients.
C14_OverwriteSameSlot == [][SaveHeld => Overwrites]_vars

\* C14 amended: the same when the save returns success; a save under a held
\* name that returns failure leaves the store as it was.
C14_Amended ==
    [][SaveHeld => IF pm'.ret = "true" THEN Overwrites ELSE nvs' = nvs]_vars

\* A successful save of P1 under a held name, whose slot now loads as P1.
C14_Witness ==
    /\ pm.op = "save_profile" /\ pm.found # -1 /\ pm.ret = "true"
    /\ pm.out = P1
    /\ Len(list_profiles(nvs)) = 2
    /\ load_profile(nvs, pm.name, DefaultProfile).profile.left_channel[1] = TESTC

\* This step is a save_profile call that finds all slots valid and none
\* holding its name, or that is made while the store rejects writes.
SaveRefused ==
    /\ pm'.op = "save_profile"
    /\ \/ Len(list_profiles(nvs)) = MAX_PROFILES /\ pm'.found = -1
       \/ g_nvs_save_fails

\* C15: when all MAX_PROFILES slots hold valid profiles, save_profile under
\* a name not already stored returns failure and leaves every stored profile
\* and the active pointer (in memory and persisted) unchanged; so does
\* save_profile when the store rejects the write.
C15_RefusedSaveChangesNothing ==
    [][SaveRefused => /\ pm'.ret = "false"
                      /\ nvs' = nvs
                      /\ active_profile_index_' = active_profile_index_]_vars

\* A save under a new name refused by a full store that accepts writes,
\* with an active profile set.
C15_Witness ==
    /\ pm.op = "save_profile" /\ pm.found = -1 /\ pm.ret = "false"
    /\ ~g_nvs_save_fails
    /\ Len(list_profiles(nvs)) = MAX_PROFILES
    /\ active_profile_index_ = 2
    /\ setup_index(nvs) = 2

\* This step is a delete_profile call on a store whose slots are all valid,
\* and it returns success.
DeletedFromFull ==
    /\ pm'.op = "delete_profile" /\ pm'.ret = "true"
    /\ Len(list_profiles(nvs)) = MAX_PROFILES

\* save_profile(m, P1) on this store would return success.
SaveSucceeds(store, m) == save_slot(store, m) # -1 /\ ~g_nvs_save_fails

\* The names no valid slot of the store holds.
NewNames(store) ==
    {m \in CapacityNames : find_profile_slot(store, m) = -1}

\* What C16 promises after such a step.
FreesOneSlot ==
    /\ ~load_profile(nvs', pm'.name, DefaultProfile).ok
    /\ \A i \in 0 .. MAX_PROFILES - 1 :
           i # pm'.found => /\ SlotRecord(nvs', i) = SlotRecord(nvs, i)
                            /\ load_profile_by_index(nvs', i, DefaultProfile).ok
    /\ \A m \in NewNames(nvs') :
           /\ SaveSucceeds(nvs', m)
           /\ \A m2 \in NewNames(saved_store(nvs', m, P1, 7000)) :
                  ~SaveSucceeds(saved_store(nvs', m, P1, 7000), m2)

\* C16: starting from a full store, after delete_profile(n) returns success,
\* load_profile(n) reports not found, the other four profiles still load with
\* unchanged contents, the next save_profile under a new name succeeds, and a
\* further save under another new name fails.
C16_DeleteFreesOneSlot == [][DeletedFromFull => FreesOneSlot]_vars

\* This step is a delete_profile call that returns success.
Deleted == pm'.op = "delete_profile" /\ pm'.ret = "true"

\* C17: delete_profile of the currently-active profile clears the active
\* pointer, in memory and in the persisted boot default (what setup() reads
\* back), so that get_active_profile_name then reports "none"; delete_profile
\* of any other profile leaves both unchanged.
C17_DeleteClearsActive ==
    [][Deleted =>
          IF pm'.found = active_profile_index_
          THEN /\ active_profile_index_' = -1
               /\ setup_index(nvs') = -1
               /\ active_profile_name' = TEXT_NONE
          ELSE /\ active_profile_index_' = active_profile_index_
               /\ setup_index(nvs') = setup_index(nvs)]_vars

\* The active slot's record is stored and validates.
ActiveRecordValid ==
    /\ active_profile_index_ \in 0 .. MAX_PROFILES - 1
    /\ \E r \in SlotRecord(nvs, active_profile_index_) :
           r.size = SIZEOF_PROFILE /\ is_valid(r.data)

\* C18: get_active_profile_name returns "none" exactly when there is no
\* active profile (active_profile_index_ = -1, as right after
\* set_active_profile(-1)), the stored name when the active slot's record
\* loads and validates, and "error" when that record is absent or fails
\* validation.
C18_ActiveNameQuery ==
    [][pm'.op = "get_active_profile_name" =>
          /\ pm'.text = TEXT_NONE <=> active_profile_index_ = -1
          /\ (active_profile_index_ # -1 /\ ActiveRecordValid)
                 => \A r \in SlotRecord(nvs, active_profile_index_) :
                        pm'.text = r.data.name
          /\ (active_profile_index_ # -1 /\ ~ActiveRecordValid)
                 => pm'.text = TEXT_ERROR]_vars

\* This step is the call of load_and_apply_active_profile.
ApplyCalled == pm'.op = "load_and_apply_active_profile" /\ calls' = calls + 1

\* The call returned within the step, with no bus transaction and no change
\* to the chip, to the caller's position on the bus, or to the store.
ReturnsUntouched ==
    /\ pc'[1] = Idle
    /\ apply'.writes = << >> /\ apply'.txns = 0
    /\ UNCHANGED << chip, bus, failures, last_writer, nvs, active_profile_index_ >>

\* C19: load_and_apply_active_profile with no active profile is a success
\* no-op: it returns success and issues zero bus transactions, leaving chip
\* state and stored profiles unchanged.
C19_NoActiveApplyIsNoOp ==
    [][(ApplyCalled /\ active_profile_index_ = -1)
          => (apply'.ret = "true" /\ ReturnsUntouched)]_vars

\* The call has returned success with no active profile, a profile being
\* stored.
C19_Witness ==
    /\ pm.op = "load_and_apply_active_profile" /\ pm.slot = -1
    /\ apply.ret = "true" /\ apply.writes = << >>
    /\ active_profile_index_ = -1
    /\ Len(list_profiles(nvs)) = 1
    /\ pc[1] = Idle

\* The write_biquad calls made so far are those for indices 0, 1, ... in
\* ascending order, the left channel (0) before the right (1) for each.
InApplyOrder ==
    \A k \in 1 .. Len(apply.writes) :
        /\ apply.writes[k].channel = (k - 1) % 2
        /\ apply.writes[k].index = (k - 1) \div 2

\* C20: when the active profile loads, load_and_apply_active_profile invokes
\* the biquad write for indices 0..14 in ascending order, left channel
\* before right channel for each index, goes on with all remaining writes
\* after a write fails, and returns success iff all 30 writes succeeded;
\* when the active profile fails to load it returns failure without any
\* bus transaction.
C20_ApplyWritesAllThirty ==
    /\ []InApplyOrder
    /\ [][(ApplyCalled /\ active_profile_index_ # -1) =>
             IF load_profile_by_index(nvs, active_profile_index_, DefaultProfile).ok
             THEN /\ apply'.ret = "running"
                  /\ frame'[1].channel = 0 /\ frame'[1].index = 0
                  /\ pc'[1] # Idle
             ELSE apply'.ret = "false" /\ ReturnsUntouched]_vars
    /\ [][(apply.ret = "running" /\ apply'.ret # "running") =>
             /\ Len(apply'.writes) = 30
             /\ apply'.ret = "true" <=>
                    \A k \in 1 .. 30 : apply'.writes[k].ok]_vars

\* A finished apply whose first write failed and whose other 29 succeeded.
C20_Witness ==
    /\ apply.ret = "false"
    /\ Len(apply.writes) = 30
    /\ ~apply.writes[1].ok
    /\ \A k \in 2 .. 30 : apply.writes[k].ok
    /\ apply.delays = 15

\* The slot's stored record is present with the size of a profile, carries
\* the expected format tag, and its checksum field equals the CRC-32 of the
\* bytes before it.
StoredIntact(store, slot) ==
    /\ slot \in 0 .. MAX_PROFILES - 1
    /\ \E e \in SlotRecord(store, slot) :
           /\ e.size = SIZEOF_PROFILE
           /\ e.data.magic = PROFILE_MAGIC
           /\ e.data.checksum = calculate_checksum(e.data)

\* C21: load_profile_by_index, and load_profile by name, return success only
\* for a record that is present, carries the expected format tag and has a
\* matching checksum (and by name: holds that name); an absent record, a
\* wrong-tag record, a bad-checksum record, a failed store load and an
\* out-of-range slot index all yield the one failure result.
C21_OnlyIntactRecordsLoad ==
    /\ [][(pm'.op = "load_profile_by_index" /\ calls' = calls + 1) =>
             /\ pm'.ret \in {"true", "false"}
             /\ pm'.ret = "true" <=>
                    (StoredIntact(nvs, pm'.slot) /\ ~g_nvs_load_fails)]_vars
    /\ [][(pm'.op = "load_profile" /\ calls' = calls + 1) =>
             /\ pm'.ret \in {"true", "false"}
             /\ pm'.ret = "true" <=>
                    /\ ~g_nvs_load_fails
                    /\ \E i \in 0 .. MAX_PROFILES - 1 :
                           /\ StoredIntact(nvs, i)
                           /\ \A e \in SlotRecord(nvs, i) : e.data.name = pm'.name
             /\ pm'.ret = "true" => is_valid(pm'.out) /\ pm'.out.name = pm'.name]_vars

\* load_profile_by_index(0) has just failed on a stored record with the right
\* tag and a checksum that does not match.
C21_Witness ==
    /\ pm.op = "load_profile_by_index" /\ pm.slot = 0 /\ pm.ret = "false"
    /\ ~g_nvs_load_fails
    /\ \E e \in SlotRecord(nvs, 0) :
           /\ e.size = SIZEOF_PROFILE
           /\ e.data.magic = PROFILE_MAGIC
           /\ e.data.checksum # calculate_checksum(e.data)

\* C22: an object with the right format tag is valid right after
\* update_checksum() and invalid after one byte of its name, timestamp,
\* coefficients or filter count is changed without recomputing the
\* checksum; an object with a wrong tag is invalid even after
\* update_checksum().
RightTag == image_magic(probe) = LE32(PROFILE_MAGIC)

C22_ChecksumIntegrity ==
    (probe.fn = "checksum" /\ probe.valid # "none") =>
        /\ (probe.stage = "updated" /\ RightTag) => probe.valid = "true"
        /\ probe.stage = "mutated" => probe.valid = "false"
        /\ ~RightTag => probe.valid = "false"

\* The filter count of a checksummed object with the right tag was changed
\* and is_valid() answered.
C22_Witness ==
    /\ probe.fn = "checksum" /\ probe.stage = "mutated" /\ RightTag
    /\ probe.image[641] # 0
    /\ probe.valid = "false"

\* This step is a call during which the store rejects a write: the store
\* rejects writes, and the call reaches a pref.save (save_profile has a slot,
\* delete_profile and set_active_profile(name) found the name,
\* set_active_profile(slot) accepted the slot).
SaveRejectedIn(ops) ==
    /\ g_nvs_save_fails
    /\ calls' = calls + 1
    /\ pm'.op \in ops
    /\ \/ pm'.op = "save_profile" /\ pm'.slot # -1
       \/ pm'.op = "delete_profile" /\ pm'.found # -1
       \/ pm'.op = "set_active_profile(name)" /\ pm'.found # -1
       \/ pm'.op = "set_active_profile(slot)" /\ pm'.slot < MAX_PROFILES

\* C23: whenever the store's save fails during save_profile, delete_profile
\* or set_active_profile, that operation returns failure.
C23_WriteRejectionSurfaced ==
    [][SaveRejectedIn({"save_profile", "delete_profile", "set_active_profile(name)",
                       "set_active_profile(slot)"}) => pm'.ret = "false"]_vars

\* This step is a set_active_profile call (by name, or by index, -1 for
\* none) that returns success, with an index from the given set.
SetActiveSucceeds(indices) ==
    /\ calls' = calls + 1
    /\ pm'.op \in {"set_active_profile(name)", "set_active_profile(slot)"}
    /\ pm'.ret = "true"
    /\ pm'.slot \in indices

\* The persisted active index: the value stored under "active_profile", as
\* a set of zero or one values.
PersistedIndex(store) ==
    IF ACTIVE_KEY_HASH \in DOMAIN store /\ store[ACTIVE_KEY_HASH].size = SIZEOF_INT8
    THEN {store[ACTIVE_KEY_HASH].data}
    ELSE {}

\* setup() has just run on a store whose persisted index is absent or
\* outside [0, MAX_PROFILES).
SetupWithoutIndex ==
    /\ pm.op = "setup"
    /\ PersistedIndex(nvs) \cap (0 .. MAX_PROFILES - 1) = {}

DECIMAL_HI == Fin(255, 16777199)

\* A finite coefficient within [-256.0, 255.999999].
InCodecRange(v) == isfinite(v) /\ ~FGt(v, DECIMAL_HI) /\ ~FGt(CLAMP_LO, v)

\* |word / 2^23 - v| <= 2^-23, in units of 2^-24.
Within2m23(word, v) ==
    /\ word.hi - v.w \in {-1, 0, 1}
    /\ LET diff == (word.hi - v.w) * Two24 + 2 * word.lo - v.f
       IN  diff >= -2 /\ diff <= 2

\* C25: for every finite coefficient v within [-256.0, 255.999999], the four
\* big-endian bytes of pack_be32(float_to_9_23(v)), read as a signed 32-bit
\* integer and divided by 2^23, are within 2^-23 of v.
C25_CodecRoundTrip ==
    (probe.fn = "codec" /\ InCodecRange(probe.value) /\ probe.decoded # << >>) =>
        Within2m23(probe.decoded[1], probe.value)

\* A negative value with a bit below 2^-23 went through the round trip.
C25_Witness ==
    /\ probe.fn = "codec" /\ probe.decoded # << >>
    /\ probe.value = Fin(-1, Two23 + 1)
    /\ probe.decoded[1] = Word(-1, Two23 \div 2 + 1)

FilterSlots == {"L", "R"} \X (0 .. NUM_BIQUADS - 1)
LocationOf(s) == << PageOf(s[1], s[2]), OffsetOf(s[2]) >>
OnPage(page) == {s \in FilterSlots : LocationOf(s)[1] = page}

RegisterMapInjective ==
    /\ \A s, t \in FilterSlots : s # t => LocationOf(s) # LocationOf(t)
    /\ Cardinality({LocationOf(s) : s \in FilterSlots}) = 30
    /\ \A i \in 0 .. NUM_BIQUADS - 1 :
          /\ PageOf("L", i) \in 36 .. 39
          /\ PageOf("R", i) \in 50 .. 53
          /\ OffsetOf(i) \in {8, 28, 48, 68}
          /\ PageOf("L", i) # PageOf("R", i)
    /\ \A page \in 0 .. 255 : Cardinality(OnPage(page)) <= 4
    /\ \A s, t \in FilterSlots :
          (s # t /\ LocationOf(s)[1] = LocationOf(t)[1]) =>
              \/ LocationOf(s)[2] + 20 <= LocationOf(t)[2]
              \/ LocationOf(t)[2] + 20 <= LocationOf(s)[2]

\* C27: the 30 (channel, index) slots map to 30 distinct (page, offset)
\* locations inside bank 0xAA, left slots on pages 0x24..0x27 and right slots
\* on pages 0x32..0x35, at most 4 slots per page at offsets 0x08, 0x1C, 0x30,
\* 0x44 with 20-byte windows that do not overlap; Left and Right of the same
\* index share the offset but never the page. Every payload the chip holds
\* is at one of these locations of bank 0xAA.
C27_RegisterMapInjective ==
    /\ RegisterMapInjective
    /\ \A loc \in DOMAIN chip.mem :
          /\ loc[1] = BOOK_COEFF
          /\ \E s \in FilterSlots : << loc[2], loc[3] >> = LocationOf(s)

\* reset_all_biquads has written every slot, and the chip holds 30 blocks.
C27_Witness ==
    /\ outer[1].ret = "true"
    /\ acked[1] = 30
    /\ Cardinality(DOMAIN chip.mem) = 30

\* The shadow's coefficients for a filter slot.
ShadowCoefficients(s) ==
    IF s[1] = "L" THEN g_current_profile_shadow.left_channel[s[2] + 1]
    ELSE g_current_profile_shadow.right_channel[s[2] + 1]

\* C28: after any sequence of successful filter writes (no call in progress,
\* no bus write failed), the shadow's coefficients for each (channel, index)
\* are the coefficients last committed to that chip slot.
C28_ShadowMatchesChip ==
    (pc[1] = Idle /\ failures = 0 /\ apply.ret # "running") =>
        \A s \in FilterSlots :
            LET loc == << BOOK_COEFF, LocationOf(s)[1], LocationOf(s)[2] >>
            IN  loc \in DOMAIN chip.mem =>
                    \E ub \in UBOutcomes :
                        chip.mem[loc] = coeff_buf(ShadowCoefficients(s), ub)

\* The channels a write_biquad call was asked to write.
RequestedChannels(channel) ==
    {ch \in {"L", "R"} : IF ch = "L" THEN LeftRequested(channel)
                          ELSE RightRequested(channel)}

\* In caller p's current write_biquad, each of the three select steps for
\* channel ch was acknowledged, and so was its 20-byte payload.
ChannelCommitted(p, ch) ==
    /\ \A step \in 1 .. 3 :
          \E i \in 1 .. Len(bus[p]) : bus[p][i].at = Sel(ch, step) /\ bus[p][i].ok
    /\ \E i \in 1 .. Len(bus[p]) :
          Payload(bus[p][i]) /\ bus[p][i].at = Data(ch) /\ bus[p][i].ok

\* C29: write_biquad returns success only if, for every requested channel,
\* the bank/page selection succeeded and the 20-byte payload write was
\* acknowledged; reset_all_biquads returns success only if all 30 payload
\* writes were acknowledged.
C29_BusErrorSurfaced ==
    \A p \in Procs :
        /\ (Returned(p) /\ ret[p] = "true") =>
               \A ch \in RequestedChannels(frame[p].channel) : ChannelCommitted(p, ch)
        /\ outer[p].ret = "true" => acked[p] = 30

\* A write to both channels returned failure with the right channel's
\* payload acknowledged: the left payload write had exhausted its retries.
C29_Witness ==
    /\ Returned(1) /\ ret[1] = "false" /\ frame[1].channel = 2
    /\ Exhausted(1, "L", "write_bytes")
    /\ ChannelCommitted(1, "R")

\* Every transaction of caller p's current call was acknowledged.
NoFailures(p) == \A i \in 1 .. Len(bus[p]) : bus[p][i].ok

\* C30: a write_biquad call makes at most 18 bus write attempts for a single
\* channel and at most 30 for Both, whatever the failure pattern; on a bus
\* with no failures it issues exactly 6 transactions for a single channel
\* and exactly 10 for Both.
C30_BoundedAttempts ==
    \A p \in Procs :
        /\ frame[p].channel \in {0, 1} => Len(bus[p]) <= 18
        /\ frame[p].channel = 2 => Len(bus[p]) <= 30
        /\ (Returned(p) /\ frame[p].buf # << >> /\ NoFailures(p)) =>
               /\ frame[p].channel \in {0, 1} => Len(bus[p]) = 6
               /\ frame[p].channel = 2 => Len(bus[p]) = 10

\* A write to both channels has returned after 30 attempts, 20 of them
\* failed.
C30_Witness ==
    /\ Returned(1) /\ frame[1].channel = 2
    /\ Len(bus[1]) = 30
    /\ failures = 20

\* C31: if write_biquad returns success, at return the chip's bank-select
\* and page-select registers both hold 0, for every pattern of bus failures.
C31_SuccessRestoresAddressing ==
    (Returned(1) /\ ret[1] = "true") => (chip.book = 0 /\ chip.page = 0)

\* The slots of the store whose record is a valid profile, and among them
\* those stored under the given name.
IntactSlots(store) == {i \in 0 .. MAX_PROFILES - 1 : StoredIntact(store, i)}
SlotsNamed(store, name) ==
    {i \in IntactSlots(store) :
        \E e \in SlotRecord(store, i) : strcmp_eq(e.data.name, name)}

\* This step is a save_profile call.
SaveCalled == pm'.op = "save_profile" /\ calls' = calls + 1

\* The save_profile call of this step leaves slot i's stored record as it was.
SlotKept(i) == SlotRecord(nvs', i) = SlotRecord(nvs, i)

\* C32: when no valid slot holds the given name, save_profile writes to the
\* lowest-index slot whose stored record is absent or invalid, and it never
\* writes to a slot whose stored record is a valid profile under a different
\* name, for every behaviour of the store (including load calls that fail).
C32_SaveSlotSelection ==
    [][SaveCalled =>
          /\ SlotsNamed(nvs, pm'.name) = {} =>
                 pm'.slot = FirstSlot((0 .. MAX_PROFILES - 1) \ IntactSlots(nvs))
          /\ \A i \in IntactSlots(nvs) \ SlotsNamed(nvs, pm'.name) : SlotKept(i)]_vars

\* The names of the valid records of the store.
IntactNames(store) ==
    {e.data.name : e \in UNION {SlotRecord(store, i) : i \in IntactSlots(store)}}

\* C33: after any sequence of save_profile and delete_profile calls with
\* names of any length, no two slots that load as valid hold the same stored
\* name, so the number of entries list_profiles returns equals the number of
\* distinct names stored.
C33_NamesUnique ==
    /\ \A i, j \in IntactSlots(nvs) :
          i # j => SlotRecord(nvs, i) # {} /\ SlotRecord(nvs, j) # {}
                   /\ \A e \in SlotRecord(nvs, i), g \in SlotRecord(nvs, j) :
                          e.data.name # g.data.name
    /\ Len(list_profiles(nvs)) = Cardinality(IntactNames(nvs))

ActivePointerValid == active_profile_index_ = -1 \/ ActiveRecordValid

\* This step is a save_profile, delete_profile or set_active_profile call on
\* a store that does not fail.
CallOnWorkingStore ==
    /\ calls' = calls + 1
    /\ pm'.op \in {"save_profile", "delete_profile", "set_active_profile(name)",
                   "set_active_profile(slot)"}
    /\ ~g_nvs_save_fails /\ ~g_nvs_load_fails

\* C35: whenever the active pointer is not none, the slot it refers to holds
\* a record that loads and validates, after any sequence of save_profile,
\* delete_profile and set_active_profile (by name or by index) calls on a
\* store that never fails: each such call keeps the pointer valid.
C35_ActivePointerValid ==
    [][(CallOnWorkingStore /\ ActivePointerValid) => ActivePointerValid']_vars

\* This step is a set_active_profile or delete_profile call.
ActiveChangingCall ==
    /\ calls' = calls + 1
    /\ pm'.op \in {"delete_profile", "set_active_profile(name)",
                   "set_active_profile(slot)"}

\* C36: after any set_active_profile or delete_profile call, whether it
\* returned success or failure, the value a fresh setup() would restore
\* equals the in-memory active index; a set_active_profile that returns
\* failure leaves the in-memory active index unchanged.
C36_ActiveEqualsPersisted ==
    [][ActiveChangingCall =>
          /\ setup_index(nvs') = active_profile_index_'
          /\ (pm'.op # "delete_profile" /\ pm'.ret = "false") =>
                 active_profile_index_' = active_profile_index_]_vars

\* C37: when load_profile_by_index or load_profile returns failure (absent
\* record, invalid tag, bad checksum, or bad slot index), the output
\* CalibrationProfile passed by the caller (a newly constructed one) is left
\* unchanged.
C37_FailedLoadKeepsOutput ==
    [][(calls' = calls + 1 /\ pm'.op \in {"load_profile_by_index", "load_profile"}
          /\ pm'.ret = "false") => pm'.out = DefaultProfile]_vars

\* The entries of a 15-filter channel that differ between two profiles.
ChangedEntries(a, b) == {i \in 1 .. 15 : a[i] # b[i]}

\* C38: add_filter_to_profile sets left_channel[index] for channel Left,
\* right_channel[index] for Right and both for Both, and changes nothing
\* else: every other coefficient set, the name, timestamp, filter count and
\* checksum are unchanged, and an index outside [0,15) leaves the whole
\* profile unchanged.
C38_AddFilterTargetsOnly ==
    (probe.fn = "add_filter" /\ probe.stage = "applied") =>
        LET b == probe.before
            a == probe.profile
            valid == probe.index \in 0 .. 14
            left == valid /\ probe.channel \in {0, 2}
            right == valid /\ probe.channel \in {1, 2}
        IN  /\ a.magic = b.magic /\ a.name = b.name /\ a.timestamp = b.timestamp
            /\ a.num_filters_used = b.num_filters_used /\ a.checksum = b.checksum
            /\ ChangedEntries(a.left_channel, b.left_channel)
                   \subseteq (IF left THEN {probe.index + 1} ELSE {})
            /\ ChangedEntries(a.right_channel, b.right_channel)
                   \subseteq (IF right THEN {probe.index + 1} ELSE {})
            /\ left => a.left_channel[probe.index + 1] = probe.coeffs
            /\ right => a.right_channel[probe.index + 1] = probe.coeffs
            /\ ~valid => a = b

\* A filter was added to the left channel only, at index 5 of a profile
\* whose right filter 14 is not bypass.
C38_Witness ==
    /\ probe.fn = "add_filter" /\ probe.stage = "applied"
    /\ probe.channel = 0 /\ probe.index = 5 /\ probe.coeffs = TESTC
    /\ probe.profile.left_channel[6] = TESTC
    /\ probe.before.left_channel[6] = BYPASS
    /\ probe.profile.right_channel[6] = BYPASS
    /\ probe.profile.right_channel[15] = TESTC

\* The value float_to_9_23 scales: v after the two clamp comparisons.
ClampOf(v) ==
    IF FGt(v, CLAMP_HI) THEN CLAMP_HI ELSE IF FGt(CLAMP_LO, v) THEN CLAMP_LO ELSE v

\* C39: for every finite input v, with the clamp bounds taken as the
\* single-precision values compared against, clamp(v) * 2^23 lies in
\* [-2^31, 2^31 - 1] (that is, -256 <= clamp(v) < 256), so every input at or
\* above the upper clamp encodes to a non-negative word and every input at
\* or below the lower clamp to a negative word.
C39_NoOverflow ==
    (probe.fn = "codec" /\ isfinite(probe.value) /\ probe.word # << >>) =>
        /\ ClampOf(probe.value).w \in -256 .. 255
        /\ ~FGt(CLAMP_HI, probe.value) => probe.word[1].hi >= 0
        /\ ~FGt(probe.value, CLAMP_LO) => probe.word[1].hi < 0

====
